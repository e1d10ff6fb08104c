---------------------- MODULE ProvisioningEventsProofs ----------------------
(* Theorems about ProvisioningEvents: the shape of its state, and what is    *)
(* true of the stored history for any number of concurrent calls, whatever   *)
(* they overwrite and however the machine restarts.                          *)
EXTENDS ProvisioningEvents, TLAPS

Entry == [st : {"idle", "create", "find", "store", "register", "registerec"},
          by : {"nobody", "boot", "announcement", "hammer", "system", "buffer"},
          event : Event, seen : Container \cup {Nothing}]

----------------------------------------------------------------------------
(* The state machine                                                         *)

(* What handling an event does to the history: it is left as it is, or the   *)
(* event, which then is not an alive event, is put in front.                 *)
Handles(ec, ev, h) ==
    /\ h \in Container
    /\ \/ h.events = ec.events
       \/ /\ ev.type # "Alive"
          /\ h.events = <<ev>> \o ec.events

(* appendEventToContainer and updateTimeAndLiveliness stay within containers.*)
LEMMA Appending ==
    ASSUME NEW ec \in Container, NEW ev \in Event
    PROVE  /\ UpdateTime(ec, ev) \in Container
           /\ UpdateTime(ec, ev).events = ec.events
           /\ AppendEvent(ec, ev) \in Container
           /\ AppendEvent(ec, ev).events = <<ev>> \o ec.events
<1>1. ev.time \in 0..MaxClock /\ <<ev>> \o ec.events \in Seq(Event)
  BY DEF Event, Container
<1>2. QED  BY <1>1 DEF UpdateTime, AppendEvent, Container

(* Every OnTransition handles its event; only the state Alive is entered by  *)
(* an alive event.                                                           *)
LEMMA Transitions ==
    ASSUME NEW ec \in Container, NEW ev \in Event, NEW state, NEW source,
           state \in Types, ev.type = "Alive" => state = "Alive"
    PROVE  Handles(ec, ev, OnTransition(state, source, ec, ev))
<1> DEFINE up == UpdateTime(ec, ev)
           ap == AppendEvent(ec, ev)
<1>1. /\ up \in Container /\ up.events = ec.events
      /\ ap \in Container /\ ap.events = <<ev>> \o ec.events
  BY Appending
<1>2. \A f, g \in Flag, h \in Container :
         /\ [h EXCEPT !.crashLoop = f] \in Container
         /\ [h EXCEPT !.crashLoop = f].events = h.events
         /\ [h EXCEPT !.failedReclaim = f] \in Container
         /\ [h EXCEPT !.failedReclaim = f].events = h.events
  BY DEF Container
<1>3. "yes" \in Flag /\ "no" \in Flag
  BY DEF Flag
<1> HIDE DEF up, ap
<1>4. CASE state = "PXE Booting"
  <2>1. Handles(ec, ev, PXEBootingState(source, ec, ev))
    BY <1>1, <1>2, <1>3, <1>4 DEF Handles, PXEBootingState, up, ap
  <2>2. QED  BY <2>1, <1>4 DEF OnTransition
<1>5. CASE state = "Preparing"
  <2>1. Handles(ec, ev, PreparingState(ec, ev))
    BY <1>1, <1>2, <1>3, <1>5 DEF Handles, PreparingState, ap
  <2>2. QED  BY <2>1, <1>5 DEF OnTransition
<1>6. CASE state = "Registering"
  <2>1. Handles(ec, ev, RegisteringState(ec, ev))
    BY <1>1, <1>6 DEF Handles, RegisteringState, ap
  <2>2. QED  BY <2>1, <1>6 DEF OnTransition
<1>7. CASE state = "Waiting"
  <2>1. Handles(ec, ev, WaitingState(ec, ev))
    BY <1>1, <1>7 DEF Handles, WaitingState, ap
  <2>2. QED  BY <2>1, <1>7 DEF OnTransition
<1>8. CASE state = "Installing"
  <2>1. Handles(ec, ev, InstallingState(ec, ev))
    BY <1>1, <1>8 DEF Handles, InstallingState, ap
  <2>2. QED  BY <2>1, <1>8 DEF OnTransition
<1>9. CASE state = "Booting New Kernel"
  <2>1. Handles(ec, ev, BootingNewKernelState(ec, ev))
    BY <1>1, <1>9 DEF Handles, BootingNewKernelState, ap
  <2>2. QED  BY <2>1, <1>9 DEF OnTransition
<1>10. CASE state = "Phoned Home"
  <2>1. Handles(ec, ev, ReclaimPhonedHome(ec, ev))
    BY <1>1, <1>2, <1>3 DEF Handles, ReclaimPhonedHome, up
  <2>2. Handles(ec, ev, UpdateTime(ec, ev))
    BY <1>1 DEF Handles, up
  <2>3. Handles(ec, ev, [AppendEvent(ec, ev) EXCEPT !.crashLoop = "no"])
    BY <1>1, <1>2, <1>3, <1>10 DEF Handles, ap
  <2>4. Handles(ec, ev, PhonedHomeState(source, ec, ev))
    BY <2>1, <2>2, <2>3 DEF PhonedHomeState
  <2>5. QED  BY <2>4, <1>10 DEF OnTransition
<1>11. CASE state = "Planned Reboot"
  <2>1. Handles(ec, ev, PlannedRebootState(ec, ev))
    BY <1>1, <1>2, <1>3, <1>11 DEF Handles, PlannedRebootState, ap
  <2>2. QED  BY <2>1, <1>11 DEF OnTransition
<1>12. CASE state = "Machine Reclaim"
  <2>1. Handles(ec, ev, MachineReclaimState(ec, ev))
    BY <1>1, <1>2, <1>3, <1>12 DEF Handles, MachineReclaimState, ap
  <2>2. QED  BY <2>1, <1>12 DEF OnTransition
<1>13. CASE state = "Alive"
  <2>1. Handles(ec, ev, AliveState(ec, ev))
    BY <1>1 DEF Handles, AliveState, up
  <2>2. QED  BY <2>1, <1>13 DEF OnTransition
<1>14. CASE state = "Crashed"
  <2>1. Handles(ec, ev, CrashState(ec, ev))
    BY <1>1, <1>2, <1>3, <1>14 DEF Handles, CrashState, ap
  <2>2. QED  BY <2>1, <1>14 DEF OnTransition
<1>15. QED
  BY <1>4, <1>5, <1>6, <1>7, <1>8, <1>9, <1>10, <1>11, <1>12, <1>13, <1>14 DEF Types, Phases

(* HandleProvisioningEvent handles its event.                                *)
LEMMA Handling ==
    ASSUME NEW ec \in Container, NEW ev \in Event
    PROVE  Handles(ec, ev, HandleProvisioningEvent(ec, ev))
<1> DEFINE s == StateOf(ec)
<1>1. ev.type \in Types
  BY DEF Event
<1>2. CASE s \in SelfSources[ev.type]
  <2>1. s \in Types /\ ev.type # "Alive"
    BY <1>1, <1>2 DEF SelfSources, Types, Phases
  <2>2. HandleProvisioningEvent(ec, ev) = OnTransition(s, s, ec, ev)
    BY <1>2 DEF HandleProvisioningEvent
  <2>3. QED  BY <2>1, <2>2, Transitions
<1>3. CASE s \in Sources[ev.type] \ SelfSources[ev.type]
  <2>1. HandleProvisioningEvent(ec, ev) = OnTransition(ev.type, s, ec, ev)
    BY <1>3 DEF HandleProvisioningEvent
  <2>2. QED  BY <1>1, <2>1, Transitions
<1>4. CASE s \notin SelfSources[ev.type] \cup Sources[ev.type]
  <2>1. HandleProvisioningEvent(ec, ev) = Unexpected(ec, ev)
    BY <1>4 DEF HandleProvisioningEvent
  <2>2. /\ UpdateTime(ec, ev) \in Container /\ UpdateTime(ec, ev).events = ec.events
        /\ AppendEvent(ec, ev) \in Container /\ AppendEvent(ec, ev).events = <<ev>> \o ec.events
    BY Appending
  <2>3. CASE ev.type = "Alive"
    BY <2>1, <2>2, <2>3 DEF Unexpected, Handles
  <2>4. CASE ev.type # "Alive"
    <3> DEFINE ap == AppendEvent(ec, ev)
               flag == IF ev.type \in {"PXE Booting", "Preparing"} THEN "yes" ELSE ap.crashLoop
    <3>1. flag \in Flag
      BY <2>2 DEF Container, Flag
    <3>2. Unexpected(ec, ev) = [ap EXCEPT !.crashLoop = flag]
      BY <2>4 DEF Unexpected
    <3>3. [ap EXCEPT !.crashLoop = flag] \in Container /\ [ap EXCEPT !.crashLoop = flag].events = ap.events
      <4> HIDE DEF flag, ap
      <4>1. ap \in Container  BY <2>2 DEF ap
      <4>2. QED  BY <3>1, <4>1 DEF Container
    <3>4. QED  BY <2>1, <2>2, <2>4, <3>2, <3>3 DEF Handles
  <2>5. QED  BY <2>3, <2>4
<1>5. QED  BY <1>2, <1>3, <1>4

----------------------------------------------------------------------------
(* Type correctness                                                          *)

(* The bounds, apart from the other assumptions.                             *)
LEMMA Bounds ==
    /\ MaxEvents \in Nat \ {0} /\ Threshold \in Nat
    /\ MaxClock \in Nat /\ MaxIrregular \in Nat
    /\ Nothing \notin Container
BY Zenon, EventsAssumption

(* The values that calls begin and end with.                                 *)
LEMMA Constants ==
    /\ Idle \in Entry /\ EmptyContainer \in Container /\ NoEvent \in Event
    /\ Nothing \notin Container
<1>1. 0 \in 0..MaxClock
  BY Bounds
<1>2. NoEvent \in Event
  BY <1>1 DEF NoEvent, Event, Types
<1>3. EmptyContainer \in Container
  <2>1. <<>> \in Seq(Event)
    OBVIOUS
  <2>2. QED  BY <2>1 DEF EmptyContainer, Container, Flag
<1>4. Idle \in Entry
  BY <1>2 DEF Idle, Entry
<1>5. QED  BY <1>2, <1>3, <1>4, Bounds

(* What a call computes from the container it read is a container.           *)
LEMMA HandledType ==
    ASSUME NEW c \in Calls, call[c] \in Entry
    PROVE  Found(c) \in Container /\ Handles(Found(c), call[c].event, Handled(c))
<1>1. Found(c) \in Container
  BY Constants DEF Found, Entry
<1>2. call[c].event \in Event
  BY DEF Entry
<1>3. QED  BY <1>1, <1>2, Handling DEF Handled

(* Trimming keeps a prefix of the history.                                   *)
LEMMA Trimming ==
    ASSUME NEW ec \in Container
    PROVE  /\ TrimEvents(ec) \in Container
           /\ Len(TrimEvents(ec).events) <= MaxEvents
           /\ Len(TrimEvents(ec).events) <= Len(ec.events)
           /\ \A i \in 1..Len(TrimEvents(ec).events) : TrimEvents(ec).events[i] = ec.events[i]
           /\ TrimEvents(ec).last = ec.last
<1> DEFINE e == ec.events
<1>1. e \in Seq(Event) /\ Len(e) \in Nat /\ MaxEvents \in Nat \ {0}
  BY Bounds DEF Container
<1>2. CASE Len(e) > MaxEvents
  <2>1. /\ SubSeq(e, 1, MaxEvents) \in Seq(Event)
        /\ Len(SubSeq(e, 1, MaxEvents)) = MaxEvents
        /\ \A i \in 1..MaxEvents : SubSeq(e, 1, MaxEvents)[i] = e[i]
    BY <1>1, <1>2
  <2>2. TrimEvents(ec) = [ec EXCEPT !.events = SubSeq(e, 1, MaxEvents)]
    BY <1>2 DEF TrimEvents
  <2>3. TrimEvents(ec) \in Container /\ TrimEvents(ec).events = SubSeq(e, 1, MaxEvents)
        /\ TrimEvents(ec).last = ec.last
    BY <2>1, <2>2 DEF Container
  <2>4. QED  BY <1>1, <1>2, <2>1, <2>3
<1>3. CASE ~(Len(e) > MaxEvents)
  <2>1. TrimEvents(ec) = ec
    BY <1>3 DEF TrimEvents
  <2>2. QED  BY <1>1, <1>3, <2>1
<1>4. QED  BY <1>2, <1>3

(* The parts of TypeOK.                                                      *)
CallsOK == call \in [Calls -> Entry]
ContainerOK ==
    /\ container \in Container \cup {Nothing}
    /\ container # Nothing => Len(container.events) <= MaxEvents
RestOK ==
    /\ row \in {"absent", "present"}
    /\ clock \in 0..MaxClock
    /\ phase \in Phases \cup {"off", "crashed"}
    /\ reported \in {"no", "sending", "yes"} /\ announced \in {"no", "sending", "yes"}
    /\ delayed \in Flag /\ fault \in Flag /\ irregular \in 0..MaxIrregular + 1

LEMMA TypeParts == TypeOK <=> CallsOK /\ ContainerOK /\ RestOK
BY DEF TypeOK, CallsOK, ContainerOK, RestOK, Entry

LEMMA TypeInit == Init => TypeOK
<1> SUFFICES ASSUME Init PROVE CallsOK /\ ContainerOK /\ RestOK
  BY TypeParts
<1>1. CallsOK
  BY Constants DEF Init, CallsOK
<1>2. ContainerOK
  BY DEF Init, ContainerOK
<1>3. RestOK
  BY Bounds DEF Init, RestOK, Flag, Phases
<1>4. QED  BY <1>1, <1>2, <1>3

(* A call that ends.                                                         *)
LEMMA ReturnType ==
    ASSUME CallsOK, RestOK, NEW c \in Calls, Return(c)
    PROVE  /\ CallsOK'
           /\ phase' \in Phases \cup {"off", "crashed"} /\ delayed' \in Flag
           /\ reported' \in {"no", "sending", "yes"} /\ announced' \in {"no", "sending", "yes"}
<1>1. CallsOK'
  BY Constants DEF Return, CallsOK
<1>2. QED  BY <1>1 DEF Return, RestOK

(* The first irregularity.                                                   *)
LEMMA IrregularType ==
    ASSUME RestOK, Irregular \/ UNCHANGED irregular
    PROVE  irregular' \in 0..MaxIrregular + 1
<1>1. irregular \in 0..MaxIrregular + 1 /\ 1 \in 0..MaxIrregular + 1
  BY Bounds DEF RestOK
<1>2. QED  BY <1>1 DEF Irregular

(* A call that begins.                                                       *)
LEMMA SendType ==
    ASSUME CallsOK, RestOK, irregular <= MaxIrregular, NEW c \in Calls, NEW type \in Types,
           NEW by \in {"boot", "announcement", "hammer", "system", "buffer"}, Send(c, by, type)
    PROVE  CallsOK' /\ irregular' \in 0..MaxIrregular + 1
<1>1. irregular' \in 0..MaxIrregular + 1
  BY Bounds DEF Send, RestOK
<1>2. [st |-> "find", by |-> by, seen |-> Nothing, event |-> [type |-> type, time |-> clock]] \in Entry
  <2>1. [type |-> type, time |-> clock] \in Event
    BY DEF Event, RestOK
  <2>2. QED  BY <2>1 DEF Entry
<1>3. [st |-> "create", by |-> by, seen |-> Nothing, event |-> [NoEvent EXCEPT !.type = type]] \in Entry
  <2>1. [NoEvent EXCEPT !.type = type] \in Event
    BY Constants DEF Event
  <2>2. QED  BY <2>1 DEF Entry
<1>4. CallsOK'
  BY <1>2, <1>3 DEF Send, Stamped, CallsOK
<1>5. QED  BY <1>1, <1>4

(* Every step keeps the types, one action after the other.                   *)
LEMMA TypeStep ==
    ASSUME TypeOK, [Next]_vars
    PROVE  TypeOK'
<1> USE DEF Flag
<1>0. CallsOK /\ ContainerOK /\ RestOK
  BY TypeParts
<1> SUFFICES CallsOK' /\ ContainerOK' /\ RestOK'
  BY TypeParts, PTL
<1>1. ASSUME NEW c \in Calls, CreateMachine(c) PROVE CallsOK' /\ ContainerOK' /\ RestOK'
  <2>1. call[c] \in Entry /\ clock \in 0..MaxClock
    BY <1>0 DEF CallsOK, RestOK
  <2>2. [st |-> "find", by |-> call[c].by, seen |-> Nothing,
         event |-> [type |-> call[c].event.type, time |-> clock]] \in Entry
    BY <2>1 DEF Entry, Event
  <2>3. CallsOK'
    BY <1>0, <1>1, <2>2 DEF CreateMachine, Stamped, CallsOK
  <2>4. QED  BY <1>0, <1>1, <2>3 DEF CreateMachine, ContainerOK, RestOK, envVars
<1>2. ASSUME NEW c \in Calls, CreateMachineConflict(c) PROVE CallsOK' /\ ContainerOK' /\ RestOK'
  <2>1. Return(c) /\ irregular' \in 0..MaxIrregular + 1
    BY <1>0, <1>2, IrregularType DEF CreateMachineConflict
  <2>2. QED  BY <1>0, <1>2, <2>1, ReturnType DEF CreateMachineConflict, ContainerOK, RestOK
<1>3. ASSUME NEW c \in Calls, FindContainer(c) PROVE CallsOK' /\ ContainerOK' /\ RestOK'
  <2>1. call[c] \in Entry /\ container \in Container \cup {Nothing}
    BY <1>0 DEF CallsOK, ContainerOK
  <2>2. [call[c] EXCEPT !.st = "store", !.seen = container] \in Entry
    BY <2>1 DEF Entry
  <2>3. call' = [call EXCEPT ![c] = [call[c] EXCEPT !.st = "store", !.seen = container]]
    BY <1>0, <1>3 DEF FindContainer, CallsOK
  <2>4. CallsOK'
    BY <1>0, <2>2, <2>3 DEF CallsOK
  <2>5. QED  BY <1>0, <1>3, <2>4 DEF FindContainer, ContainerOK, RestOK, envVars
<1>4. ASSUME NEW c \in Calls, StoreContainer(c) PROVE CallsOK' /\ ContainerOK' /\ RestOK'
  <2>1. call[c] \in Entry
    BY <1>0 DEF CallsOK
  <2>2. Handled(c) \in Container
    BY <2>1, HandledType DEF Handles
  <2>3. ContainerOK'
    BY <1>4, <2>2, Trimming DEF StoreContainer, ContainerOK
  <2>4. irregular' \in 0..MaxIrregular + 1
    BY <1>0, <1>4, IrregularType DEF StoreContainer
  <2>5. Return(c) /\ fault' \in Flag
    BY <1>0, <1>4 DEF StoreContainer, RestOK
  <2>6. QED  BY <1>0, <1>4, <2>3, <2>4, <2>5, ReturnType DEF StoreContainer, RestOK
<1>5. ASSUME NEW c \in Calls, StoreContainerInvalid(c) PROVE CallsOK' /\ ContainerOK' /\ RestOK'
  <2>1. Return(c) /\ irregular' \in 0..MaxIrregular + 1
    BY <1>0, <1>5, IrregularType DEF StoreContainerInvalid
  <2>2. QED  BY <1>0, <1>5, <2>1, ReturnType DEF StoreContainerInvalid, ContainerOK, RestOK
<1>6. ASSUME NEW c \in Calls, LoseCall(c) PROVE CallsOK' /\ ContainerOK' /\ RestOK'
  <2>1. Return(c) /\ irregular' \in 0..MaxIrregular + 1
    BY <1>0, <1>6, IrregularType DEF LoseCall
  <2>2. QED  BY <1>0, <1>6, <2>1, ReturnType DEF LoseCall, ContainerOK, RestOK
<1>7. ASSUME NEW c \in Calls, RegisterMachine(c) PROVE CallsOK' /\ ContainerOK' /\ RestOK'
  <2>1. [Idle EXCEPT !.st = "register", !.by = "hammer"] \in Entry
    BY Constants DEF Entry
  <2>2. CallsOK'
    BY <1>0, <1>7, <2>1 DEF RegisterMachine, CallsOK
  <2>3. QED  BY <1>0, <1>7, <2>2 DEF RegisterMachine, ContainerOK, RestOK, envVars
<1>8. ASSUME NEW c \in Calls, RegisterFind(c) PROVE CallsOK' /\ ContainerOK' /\ RestOK'
  <2>1. CASE container # Nothing
    <3>1. Return(c)
      BY <1>8, <2>1 DEF RegisterFind
    <3>2. QED  BY <1>0, <1>8, <3>1, ReturnType DEF RegisterFind, ContainerOK, RestOK
  <2>2. CASE container = Nothing
    <3>1. call[c] \in Entry /\ clock \in 0..MaxClock
      BY <1>0 DEF CallsOK, RestOK
    <3>2. [call[c].event EXCEPT !.time = clock] \in Event
      BY <3>1 DEF Entry, Event
    <3>3. [call[c] EXCEPT !.st = "registerec", !.event = [call[c].event EXCEPT !.time = clock]] \in Entry
      BY <3>1, <3>2 DEF Entry
    <3>4. call' = [call EXCEPT ![c] = [call[c] EXCEPT !.st = "registerec",
                                          !.event = [call[c].event EXCEPT !.time = clock]]]
      BY <1>0, <1>8, <2>2, <3>1 DEF RegisterFind, CallsOK, Entry
    <3>5. CallsOK'
      BY <1>0, <3>3, <3>4 DEF CallsOK
    <3>6. QED  BY <1>0, <1>8, <2>2, <3>5 DEF RegisterFind, ContainerOK, RestOK, envVars
  <2>3. QED  BY <2>1, <2>2
<1>9. ASSUME NEW c \in Calls, RegisterContainer(c) PROVE CallsOK' /\ ContainerOK' /\ RestOK'
  <2>1. Return(c) /\ irregular' \in 0..MaxIrregular + 1
    BY <1>0, <1>9, IrregularType DEF RegisterContainer
  <2>2. <<call[c].event>> \in Seq(Event) /\ Len(<<call[c].event>>) = 1
    BY <1>0 DEF CallsOK, Entry
  <2>3. [EmptyContainer EXCEPT !.events = <<call[c].event>>] \in Container
    BY <2>2, Constants DEF Container
  <2>4. [EmptyContainer EXCEPT !.events = <<call[c].event>>].events = <<call[c].event>>
    BY DEF EmptyContainer
  <2>5. ContainerOK'
    BY <1>0, <1>9, <2>2, <2>3, <2>4, Bounds DEF RegisterContainer, ContainerOK
  <2>6. QED  BY <1>0, <1>9, <2>1, <2>5, ReturnType DEF RegisterContainer, RestOK
<1>10. ASSUME irregular <= MaxIrregular, NEW c \in Calls, Report(c)
       PROVE  CallsOK' /\ ContainerOK' /\ RestOK'
  <2>1. PICK type \in Types : Send(c, "boot", type)
    <3>1. (IF phase = "crashed" THEN "Crashed" ELSE phase) \in Types
      BY <1>0, <1>10 DEF Report, RestOK, Types
    <3>2. QED  BY <1>10, <3>1 DEF Report
  <2>2. CallsOK' /\ irregular' \in 0..MaxIrregular + 1
    BY <1>0, <1>10, <2>1, SendType
  <2>3. QED  BY <1>0, <1>10, <2>2 DEF Report, ContainerOK, RestOK
<1>11. ASSUME irregular <= MaxIrregular, NEW c \in Calls, SignOfLife(c)
       PROVE  CallsOK' /\ ContainerOK' /\ RestOK'
  <2>1. CallsOK' /\ irregular' \in 0..MaxIrregular + 1
    BY <1>0, <1>11, SendType DEF SignOfLife, Types
  <2>2. QED  BY <1>0, <1>11, <2>1 DEF SignOfLife, ContainerOK, RestOK, envVars
<1>12. ASSUME irregular <= MaxIrregular, NEW c \in Calls, DeliverDelayed(c)
       PROVE  CallsOK' /\ ContainerOK' /\ RestOK'
  <2>1. CallsOK' /\ irregular' \in 0..MaxIrregular + 1
    BY <1>0, <1>12, SendType DEF DeliverDelayed, Types, Phases
  <2>2. QED  BY <1>0, <1>12, <2>1 DEF DeliverDelayed, ContainerOK, RestOK
<1>13. ASSUME irregular <= MaxIrregular, NEW c \in Calls, NEW type \in Announcements, Announce(c, type)
       PROVE  CallsOK' /\ ContainerOK' /\ RestOK'
  <2>1. type \in Types
    BY EventsAssumption, Zenon DEF EventsAssumption, Types
  <2>2. CallsOK' /\ irregular' \in 0..MaxIrregular + 1
    BY <1>0, <1>13, <2>1, SendType DEF Announce
  <2>3. QED  BY <1>0, <1>13, <2>2 DEF Announce, ContainerOK, RestOK
<1>14. ASSUME Proceed PROVE CallsOK' /\ ContainerOK' /\ RestOK'
  <2>1. irregular' \in 0..MaxIrregular + 1
    BY <1>0, <1>14, IrregularType DEF Proceed
  <2>2. phase' \in Phases
    BY <1>14 DEF Proceed, NextPhase, Phases
  <2>3. QED  BY <1>0, <1>14, <2>1, <2>2 DEF Proceed, CallsOK, ContainerOK, RestOK
<1>15. ASSUME Restart PROVE CallsOK' /\ ContainerOK' /\ RestOK'
  BY <1>0, <1>15 DEF Restart, CallsOK, ContainerOK, RestOK, Phases
<1>16. ASSUME Crash PROVE CallsOK' /\ ContainerOK' /\ RestOK'
  BY <1>0, <1>16 DEF Crash, CallsOK, ContainerOK, RestOK
<1>17. ASSUME Tick PROVE CallsOK' /\ ContainerOK' /\ RestOK'
  BY <1>0, <1>17, Bounds DEF Tick, CallsOK, ContainerOK, RestOK, envVars
<1>18. ASSUME UNCHANGED vars PROVE CallsOK' /\ ContainerOK' /\ RestOK'
  BY <1>0, <1>18 DEF vars, envVars, CallsOK, ContainerOK, RestOK
<1>19. QED
  BY <1>1, <1>2, <1>3, <1>4, <1>5, <1>6, <1>7, <1>8, <1>9, <1>10, <1>11, <1>12, <1>13,
     <1>14, <1>15, <1>16, <1>17, <1>18 DEF Next

(* Containers, calls and the machine keep their shape, for any number of     *)
(* calls: what the state machine computes is a container, and trimming       *)
(* bounds what is stored.                                                    *)
THEOREM TypeCorrect == Spec => []TypeOK
<1>1. QED  BY TypeInit, TypeStep, PTL DEF Spec

----------------------------------------------------------------------------
(* The history                                                               *)

(* What Chronological and AliveOnlyAsFirst say of one container.             *)
Ordered(ec) ==
    /\ \A i, j \in 1..Len(ec.events) : i < j => ec.events[j].time <= ec.events[i].time
    /\ ec.last # Nothing => \A i \in 1..Len(ec.events) : ec.events[i].time <= ec.last
AliveAsFirst(ec) == \A i \in 1..Len(ec.events) - 1 : ec.events[i].type # "Alive"

(* The invariant: a call computes the next container from one it read        *)
(* earlier, and writes it whatever is stored by then; so what is true of the *)
(* stored one must be true of every one that was read.                       *)
HistoryInv ==
    /\ container # Nothing => Ordered(container) /\ AliveAsFirst(container)
    /\ \A c \in Calls : call[c].seen # Nothing => Ordered(call[c].seen) /\ AliveAsFirst(call[c].seen)

(* The indices of a history that got one more event.                         *)
LEMMA Prepended ==
    ASSUME NEW ec \in Container, NEW ev \in Event, NEW h \in Container,
           h.events = <<ev>> \o ec.events
    PROVE  /\ Len(ec.events) \in Nat /\ Len(h.events) = Len(ec.events) + 1
           /\ h.events[1] = ev /\ Head(h.events) = ev
           /\ \A i \in 2..Len(h.events) : h.events[i] = ec.events[i - 1]
<1>1. ec.events \in Seq(Event)
  BY DEF Container
<1>2. QED  BY <1>1

(* The events of a container have times.                                     *)
LEMMA EventTimes ==
    ASSUME NEW ec \in Container
    PROVE  /\ Len(ec.events) \in Nat
           /\ \A i \in 1..Len(ec.events) : ec.events[i] \in Event /\ ec.events[i].time \in Nat
           /\ ec.last # Nothing => ec.last \in Nat
<1>1. ec.events \in Seq(Event) /\ ec.last \in 0..MaxClock \cup {Nothing} /\ MaxClock \in Nat
  BY Bounds DEF Container
<1>2. \A i \in 1..Len(ec.events) : ec.events[i] \in Event
  BY <1>1
<1>3. \A ev \in Event : ev.time \in Nat
  BY <1>1 DEF Event
<1>4. QED  BY <1>1, <1>2, <1>3

(* An event that is validated together with an ordered history keeps it      *)
(* ordered: validation compares neighbours only, and that is enough, because *)
(* the rest of the history was ordered when it was read.                     *)
LEMMA HandledOrdered ==
    ASSUME NEW ec \in Container, NEW ev \in Event, NEW h, Handles(ec, ev, h),
           Ordered(ec), Validate(h)
    PROVE  Ordered(h)
<1> DEFINE e == ec.events
           n == Len(h.events)
<1>1. h \in Container
  BY DEF Handles
<1>2. /\ n \in Nat /\ Len(e) \in Nat
      /\ \A i \in 1..n : h.events[i].time \in Nat
      /\ \A i \in 1..Len(e) : e[i].time \in Nat
      /\ h.last # Nothing => h.last \in Nat
  BY <1>1, EventTimes
<1>3. \A i, j \in 1..n : i < j => h.events[j].time <= h.events[i].time
  <2>1. CASE h.events = e
    BY <2>1 DEF Ordered
  <2>2. CASE h.events = <<ev>> \o e
    <3>1. /\ n = Len(e) + 1 /\ h.events[1] = ev
          /\ \A i \in 2..n : h.events[i] = e[i - 1]
      BY <1>1, <2>2, Prepended
    <3>2. n > 1 => h.events[2].time <= h.events[1].time
      <4>1. h.events # <<>>
        BY <1>2, <3>1
      <4>2. QED  BY <1>2, <4>1 DEF Validate
    <3>3. SUFFICES ASSUME NEW i \in 1..n, NEW j \in 1..n, i < j
                   PROVE  h.events[j].time <= h.events[i].time
      OBVIOUS
    <3>4. CASE i > 1
      <4>1. i - 1 \in 1..Len(e) /\ j - 1 \in 1..Len(e) /\ i - 1 < j - 1
        BY <1>2, <3>1, <3>3, <3>4
      <4>2. e[j - 1].time <= e[i - 1].time
        BY <4>1 DEF Ordered
      <4>3. i \in 2..n /\ j \in 2..n
        BY <1>2, <3>3, <3>4
      <4>4. QED  BY <3>1, <4>2, <4>3
    <3>5. CASE i = 1 /\ j = 2
      BY <1>2, <3>2, <3>3, <3>5
    <3>6. CASE i = 1 /\ j > 2
      <4>1. j - 1 \in 1..Len(e) /\ 1 \in 1..Len(e) /\ 1 < j - 1 /\ j \in 2..n /\ 2 \in 2..n
        BY <1>2, <3>1, <3>3, <3>6
      <4>2. e[j - 1].time <= e[1].time
        BY <4>1 DEF Ordered
      <4>3. h.events[j] = e[j - 1] /\ h.events[2] = e[1]
        BY <3>1, <4>1
      <4>4. h.events[2].time <= h.events[1].time
        BY <1>2, <3>2, <4>1
      <4>5. /\ h.events[j].time \in Nat /\ h.events[2].time \in Nat /\ h.events[1].time \in Nat
        BY <1>2, <4>1
      <4>6. QED  BY <3>6, <4>2, <4>3, <4>4, <4>5
    <3>7. QED  BY <1>2, <3>3, <3>4, <3>5, <3>6
  <2>3. QED  BY <2>1, <2>2 DEF Handles
<1>4. ASSUME h.last # Nothing, NEW i \in 1..n PROVE h.events[i].time <= h.last
  <2>1. h.events \in Seq(Event) /\ h.events # <<>> /\ 1 \in 1..n
    BY <1>1, <1>2, <1>4 DEF Container
  <2>2. Head(h.events) = h.events[1] /\ Head(h.events).time <= h.last
    BY <2>1 DEF Validate
  <2>3. i = 1 \/ h.events[i].time <= h.events[1].time
    BY <1>2, <1>3, <1>4, <2>1
  <2>4. h.last \in Nat /\ h.events[i].time \in Nat /\ h.events[1].time \in Nat
    BY <1>2, <1>4, <2>1
  <2>5. QED  BY <2>2, <2>3, <2>4
<1>5. QED  BY <1>3, <1>4 DEF Ordered

(* An alive event is never put in front, so the one that Register stored     *)
(* stays the oldest.                                                         *)
LEMMA HandledAlive ==
    ASSUME NEW ec \in Container, NEW ev \in Event, NEW h, Handles(ec, ev, h), AliveAsFirst(ec)
    PROVE  AliveAsFirst(h)
<1> DEFINE e == ec.events
           n == Len(h.events)
<1>1. CASE h.events = e
  BY <1>1 DEF AliveAsFirst
<1>2. CASE ev.type # "Alive" /\ h.events = <<ev>> \o e
  <2>1. /\ Len(e) \in Nat /\ n = Len(e) + 1 /\ h.events[1] = ev
        /\ \A i \in 2..n : h.events[i] = e[i - 1]
    BY <1>2, Prepended DEF Handles
  <2>2. SUFFICES ASSUME NEW i \in 1..n - 1 PROVE h.events[i].type # "Alive"
    BY DEF AliveAsFirst
  <2>3. CASE i = 1
    BY <1>2, <2>1, <2>3
  <2>4. CASE i > 1
    <3>1. i \in 2..n /\ i - 1 \in 1..Len(e) - 1
      BY <2>1, <2>2, <2>4
    <3>2. QED  BY <2>1, <3>1 DEF AliveAsFirst
  <2>5. QED  BY <2>1, <2>2, <2>3, <2>4
<1>3. QED  BY <1>1, <1>2 DEF Handles

(* Dropping the oldest events disturbs neither.                              *)
LEMMA TrimmedHistory ==
    ASSUME NEW ec \in Container, Ordered(ec), AliveAsFirst(ec)
    PROVE  Ordered(TrimEvents(ec)) /\ AliveAsFirst(TrimEvents(ec))
<1> DEFINE t == TrimEvents(ec)
<1>1. /\ Len(t.events) \in Nat /\ Len(ec.events) \in Nat /\ Len(t.events) <= Len(ec.events)
      /\ \A i \in 1..Len(t.events) : t.events[i] = ec.events[i]
      /\ t.last = ec.last
  BY Trimming, EventTimes
<1> HIDE DEF t
<1>2. \A i \in 1..Len(t.events) : i \in 1..Len(ec.events)
  BY <1>1
<1>3. \A i \in 1..Len(t.events) - 1 : i \in 1..Len(ec.events) - 1 /\ i \in 1..Len(t.events)
  BY <1>1
<1>4. Ordered(t)
  BY <1>1, <1>2 DEF Ordered
<1>5. AliveAsFirst(t)
  BY <1>1, <1>3 DEF AliveAsFirst
<1>6. QED  BY <1>4, <1>5 DEF t

(* A call that begins or ends has read nothing.                              *)
LEMMA NothingRead ==
    ASSUME CallsOK, HistoryInv, UNCHANGED container, NEW c \in Calls, NEW entry,
           entry.seen = Nothing, call' = [call EXCEPT ![c] = entry]
    PROVE  HistoryInv'
<1>1. \A d \in Calls : call'[d].seen = Nothing \/ call'[d] = call[d]
  BY DEF CallsOK
<1>2. QED  BY <1>1 DEF HistoryInv

LEMMA NothingReadOnReturn ==
    ASSUME CallsOK, NEW c \in Calls, Return(c)
    PROVE  \A d \in Calls : call'[d].seen = Nothing \/ call'[d] = call[d]
BY DEF CallsOK, Return, Idle

LEMMA SendHistory ==
    ASSUME CallsOK, HistoryInv, UNCHANGED container, NEW c \in Calls, NEW by, NEW type, Send(c, by, type)
    PROVE  HistoryInv'
<1>1. CASE row = "present"
  <2> DEFINE entry == [st |-> "find", by |-> by, seen |-> Nothing,
                       event |-> [type |-> type, time |-> clock]]
  <2>1. entry.seen = Nothing /\ call' = [call EXCEPT ![c] = entry]
    BY <1>1 DEF Send, Stamped
  <2> HIDE DEF entry
  <2>2. QED  BY <2>1, NothingRead
<1>2. CASE row # "present"
  <2> DEFINE entry == [st |-> "create", by |-> by, seen |-> Nothing,
                       event |-> [NoEvent EXCEPT !.type = type]]
  <2>1. entry.seen = Nothing /\ call' = [call EXCEPT ![c] = entry]
    BY <1>2 DEF Send
  <2> HIDE DEF entry
  <2>2. QED  BY <2>1, NothingRead
<1>3. QED  BY <1>1, <1>2

LEMMA HistoryStep ==
    ASSUME TypeOK, HistoryInv, [Next]_vars
    PROVE  HistoryInv'
<1>0. CallsOK /\ ContainerOK /\ RestOK
  BY TypeParts
<1>1. ASSUME NEW c \in Calls, CreateMachine(c) PROVE HistoryInv'
  <2> DEFINE entry == [st |-> "find", by |-> call[c].by, seen |-> Nothing,
                       event |-> [type |-> call[c].event.type, time |-> clock]]
  <2>1. entry.seen = Nothing /\ call' = [call EXCEPT ![c] = entry] /\ UNCHANGED container
    BY <1>1 DEF CreateMachine, Stamped
  <2> HIDE DEF entry
  <2>2. QED  BY <1>0, <2>1, NothingRead
<1>2. ASSUME NEW c \in Calls,
             CreateMachineConflict(c) \/ StoreContainerInvalid(c) \/ LoseCall(c)
      PROVE  HistoryInv'
  <2>1. Return(c) /\ UNCHANGED container
    BY <1>2 DEF CreateMachineConflict, StoreContainerInvalid, LoseCall
  <2>2. QED  BY <1>0, <2>1, NothingReadOnReturn DEF HistoryInv
<1>3. ASSUME NEW c \in Calls, FindContainer(c) PROVE HistoryInv'
  <2>1. \A d \in Calls : call'[d].seen = container \/ call'[d] = call[d]
    BY <1>0, <1>3 DEF FindContainer, CallsOK, Entry
  <2>2. QED  BY <1>3, <2>1 DEF FindContainer, HistoryInv
<1>4. ASSUME NEW c \in Calls, StoreContainer(c) PROVE HistoryInv'
  <2>1. call[c] \in Entry /\ call[c].event \in Event
    BY <1>0 DEF CallsOK, Entry
  <2>2. Found(c) \in Container /\ Handles(Found(c), call[c].event, Handled(c))
    BY <2>1, HandledType
  <2>3. Ordered(Found(c)) /\ AliveAsFirst(Found(c))
    <3>1. CASE call[c].seen = Nothing
      <4>1. Found(c).events = <<>> /\ Found(c).last = Nothing
        BY <3>1 DEF Found, EmptyContainer
      <4>2. QED  BY <4>1 DEF Ordered, AliveAsFirst
    <3>2. CASE call[c].seen # Nothing
      BY <3>2 DEF Found, HistoryInv
    <3>3. QED  BY <3>1, <3>2
  <2>4. Validate(Handled(c)) /\ Handled(c) \in Container
    BY <1>4, <2>2 DEF StoreContainer, Handles
  <2>5. Ordered(Handled(c)) /\ AliveAsFirst(Handled(c))
    BY <2>1, <2>2, <2>3, <2>4, HandledOrdered, HandledAlive
  <2>6. container' = TrimEvents(Handled(c)) /\ Return(c)
    BY <1>4 DEF StoreContainer
  <2>7. Ordered(container') /\ AliveAsFirst(container')
    BY <2>4, <2>5, <2>6, TrimmedHistory
  <2>8. QED  BY <1>0, <2>6, <2>7, NothingReadOnReturn DEF HistoryInv
<1>5. ASSUME NEW c \in Calls, RegisterMachine(c) PROVE HistoryInv'
  <2> DEFINE entry == [Idle EXCEPT !.st = "register", !.by = "hammer"]
  <2>1. entry.seen = Nothing /\ call' = [call EXCEPT ![c] = entry] /\ UNCHANGED container
    BY <1>5 DEF RegisterMachine, Idle
  <2> HIDE DEF entry
  <2>2. QED  BY <1>0, <2>1, NothingRead
<1>6. ASSUME NEW c \in Calls, RegisterFind(c) PROVE HistoryInv'
  <2>1. UNCHANGED container
    BY <1>6 DEF RegisterFind
  <2>2. \A d \in Calls : call'[d].seen = Nothing \/ call'[d].seen = call[d].seen
    <3>1. CASE container # Nothing
      BY <1>0, <1>6, <3>1, NothingReadOnReturn DEF RegisterFind
    <3>2. CASE container = Nothing
      BY <1>0, <1>6, <3>2 DEF RegisterFind, CallsOK, Entry
    <3>3. QED  BY <3>1, <3>2
  <2>3. QED  BY <2>1, <2>2 DEF HistoryInv
<1>7. ASSUME NEW c \in Calls, RegisterContainer(c) PROVE HistoryInv'
  <2>1. Return(c) /\ call[c].event \in Event
    BY <1>0, <1>7 DEF RegisterContainer, CallsOK, Entry
  <2>2. \/ container' = container
        \/ container'.events = <<call[c].event>> /\ container'.last = Nothing
    BY <1>7 DEF RegisterContainer, EmptyContainer
  <2>3. (container'.events = <<call[c].event>> /\ container'.last = Nothing)
        => Ordered(container') /\ AliveAsFirst(container')
    BY <2>1 DEF Ordered, AliveAsFirst
  <2>4. QED  BY <1>0, <2>1, <2>2, <2>3, NothingReadOnReturn DEF HistoryInv
<1>8. ASSUME NEW c \in Calls,
             \/ Report(c) \/ SignOfLife(c) \/ DeliverDelayed(c)
             \/ \E type \in Announcements : Announce(c, type)
      PROVE  HistoryInv'
  <2>1. UNCHANGED container /\ \E by, type : Send(c, by, type)
    BY <1>8, Zenon DEF Report, SignOfLife, DeliverDelayed, Announce
  <2>2. QED  BY <1>0, <2>1, SendHistory
<1>9. ASSUME Proceed \/ Restart \/ Crash \/ Tick \/ UNCHANGED vars PROVE HistoryInv'
  <2>1. UNCHANGED <<container, call>>
    BY <1>9 DEF Proceed, Restart, Crash, Tick, vars
  <2>2. QED  BY <2>1 DEF HistoryInv
<1>10. QED
  BY <1>1, <1>2, <1>3, <1>4, <1>5, <1>6, <1>7, <1>8, <1>9 DEF Next

LEMMA HistoryInit == Init => HistoryInv
BY DEF Init, HistoryInv, Idle

LEMMA HistoryInvariant == Spec => [](TypeOK /\ HistoryInv)
<1>1. QED  BY TypeInit, TypeStep, HistoryInit, HistoryStep, PTL DEF Spec

(* The stored events are in the order of their times for any number of       *)
(* concurrent calls that overwrite each other, although every call compares  *)
(* neighbours in its own copy only, and Upsert compares nothing.             *)
THEOREM HistoryOrdered == Spec => []Chronological
<1>1. HistoryInv => Chronological
  BY DEF HistoryInv, Ordered, Chronological
<1>2. QED  BY <1>1, HistoryInvariant, PTL

(* Alive events never pile up in the history, whatever state the machine is  *)
(* in: at most the one that Register stores is there, as the oldest.         *)
THEOREM AliveStaysFirst == Spec => []AliveOnlyAsFirst
<1>1. HistoryInv => AliveOnlyAsFirst
  BY DEF HistoryInv, AliveAsFirst, AliveOnlyAsFirst
<1>2. QED  BY <1>1, HistoryInvariant, PTL

----------------------------------------------------------------------------
(* Crash loops                                                               *)

(* A container is read off by its state, and by its fields.                  *)
LEMMA Shapes ==
    ASSUME NEW ec \in Container, NEW ev \in Event
    PROVE  /\ UpdateTime(ec, ev).events = ec.events /\ StateOf(UpdateTime(ec, ev)) = StateOf(ec)
           /\ UpdateTime(ec, ev).crashLoop = ec.crashLoop
           /\ UpdateTime(ec, ev).failedReclaim = ec.failedReclaim
           /\ UpdateTime(ec, ev).last = ev.time
           /\ AppendEvent(ec, ev).events # ec.events /\ StateOf(AppendEvent(ec, ev)) = ev.type
           /\ AppendEvent(ec, ev).crashLoop = ec.crashLoop
           /\ Head(AppendEvent(ec, ev).events) = ev
           /\ AppendEvent(ec, ev).last = ev.time
           /\ ev.time # Nothing
           /\ UpdateTime(ec, ev) \in Container /\ AppendEvent(ec, ev) \in Container
<1>1. /\ UpdateTime(ec, ev).events = ec.events
      /\ UpdateTime(ec, ev).crashLoop = ec.crashLoop
      /\ UpdateTime(ec, ev).failedReclaim = ec.failedReclaim
      /\ UpdateTime(ec, ev).last = ev.time
      /\ AppendEvent(ec, ev).crashLoop = ec.crashLoop
      /\ AppendEvent(ec, ev).last = ev.time
  BY DEF UpdateTime, AppendEvent, Container
<1>2. /\ UpdateTime(ec, ev) \in Container /\ AppendEvent(ec, ev) \in Container
      /\ AppendEvent(ec, ev).events = <<ev>> \o ec.events
  BY Appending
<1> DEFINE ap == AppendEvent(ec, ev)
<1>3. /\ Len(ec.events) \in Nat /\ Len(ap.events) = Len(ec.events) + 1 /\ Head(ap.events) = ev
  BY <1>2, Prepended
<1>4. ap.events # ec.events /\ ap.events # <<>>
  BY <1>3
<1>5. StateOf(ap) = ev.type /\ StateOf(UpdateTime(ec, ev)) = StateOf(ec)
  BY <1>1, <1>3, <1>4 DEF StateOf
<1>6. ev.time # Nothing
  <2>1. Nothing \notin Nat
    BY Zenon, EventsAssumption
  <2>2. QED  BY <2>1, Bounds DEF Event
<1>7. QED  BY <1>1, <1>2, <1>3, <1>4, <1>5, <1>6

(* Setting a flag disturbs nothing else.                                     *)
LEMMA Flags ==
    ASSUME NEW h \in Container, NEW f \in Flag
    PROVE  /\ [h EXCEPT !.crashLoop = f].crashLoop = f
           /\ [h EXCEPT !.crashLoop = f].events = h.events
           /\ [h EXCEPT !.crashLoop = f].last = h.last
           /\ [h EXCEPT !.crashLoop = f].failedReclaim = h.failedReclaim
           /\ StateOf([h EXCEPT !.crashLoop = f]) = StateOf(h)
           /\ [h EXCEPT !.failedReclaim = f].crashLoop = h.crashLoop
           /\ [h EXCEPT !.failedReclaim = f].events = h.events
           /\ [h EXCEPT !.failedReclaim = f].last = h.last
           /\ [h EXCEPT !.failedReclaim = f].failedReclaim = f
           /\ StateOf([h EXCEPT !.failedReclaim = f]) = StateOf(h)
BY DEF Container, StateOf

(* The machine's own state machine: a sign of life never enters the history, *)
(* and changes neither the state nor the flags.                              *)
LEMMA AliveHandled ==
    ASSUME NEW ec \in Container, NEW ev \in Event, ev.type = "Alive"
    PROVE  HandleProvisioningEvent(ec, ev) = UpdateTime(ec, ev)
<1>1. SelfSources["Alive"] = {} /\ "Alive" \in Types
  BY DEF SelfSources, Types
<1>2. QED
  BY <1>1 DEF HandleProvisioningEvent, OnTransition, AliveState, Unexpected

(* The events of a boot up to the new kernel, and the one of a crash: the    *)
(* state is the one that is reported; an unexpected first event is a crash   *)
(* loop, and only a crash that is expected is one.                           *)
BootOutcome(ec, ev, h) ==
    /\ StateOf(h) = ev.type /\ h.last = ev.time
    /\ ev.type \in {"PXE Booting", "Preparing"} =>
         h.crashLoop = IF StateOf(ec) \in Sources[ev.type] \cup SelfSources[ev.type]
                       THEN ec.crashLoop ELSE "yes"
    /\ ev.type = "Crashed" /\ StateOf(ec) \in Sources["Crashed"] => h.crashLoop = "yes"
    /\ ev.type \notin {"PXE Booting", "Preparing", "Crashed"} => h.crashLoop = ec.crashLoop

LEMMA BootHandled ==
    ASSUME NEW ec \in Container, NEW ev \in Event, NEW h,
           h = HandleProvisioningEvent(ec, ev),
           ev.type \in (Phases \ {"Phoned Home"}) \cup {"Crashed"}
    PROVE  BootOutcome(ec, ev, h)
<1> DEFINE s == StateOf(ec)
           up == UpdateTime(ec, ev)
           ap == AppendEvent(ec, ev)
<1>1. /\ StateOf(up) = s /\ up.crashLoop = ec.crashLoop /\ up.last = ev.time
      /\ StateOf(ap) = ev.type /\ ap.crashLoop = ec.crashLoop /\ ap.last = ev.time
      /\ up \in Container /\ ap \in Container
  BY Shapes
<1>2. ~SwallowBuffered(ec, ev) /\ "yes" \in Flag /\ "no" \in Flag
  BY DEF SwallowBuffered, Flag, Phases
<1>3. /\ [ap EXCEPT !.crashLoop = "yes"].crashLoop = "yes"
      /\ [ap EXCEPT !.crashLoop = "yes"].last = ev.time
      /\ StateOf([ap EXCEPT !.crashLoop = "yes"]) = ev.type
      /\ [ap EXCEPT !.failedReclaim = "no"].crashLoop = ec.crashLoop
      /\ [ap EXCEPT !.failedReclaim = "no"].last = ev.time
      /\ StateOf([ap EXCEPT !.failedReclaim = "no"]) = ev.type
      /\ [up EXCEPT !.failedReclaim = "no"].crashLoop = ec.crashLoop
      /\ [up EXCEPT !.failedReclaim = "no"].last = ev.time
      /\ StateOf([up EXCEPT !.failedReclaim = "no"]) = s
  <2> HIDE DEF up, ap
  <2>1. /\ [ap EXCEPT !.crashLoop = "yes"].crashLoop = "yes"
        /\ [ap EXCEPT !.crashLoop = "yes"].last = ap.last
        /\ StateOf([ap EXCEPT !.crashLoop = "yes"]) = StateOf(ap)
    BY <1>1, <1>2, Flags
  <2>2. /\ [ap EXCEPT !.failedReclaim = "no"].crashLoop = ap.crashLoop
        /\ [ap EXCEPT !.failedReclaim = "no"].last = ap.last
        /\ StateOf([ap EXCEPT !.failedReclaim = "no"]) = StateOf(ap)
    BY <1>1, <1>2, Flags
  <2>3. /\ [up EXCEPT !.failedReclaim = "no"].crashLoop = up.crashLoop
        /\ [up EXCEPT !.failedReclaim = "no"].last = up.last
        /\ StateOf([up EXCEPT !.failedReclaim = "no"]) = StateOf(up)
    BY <1>1, <1>2, Flags
  <2>4. QED  BY <1>1, <2>1, <2>2, <2>3
<1>4. [ap EXCEPT !.crashLoop = ap.crashLoop] = ap
  BY <1>1 DEF Container
<1>5. /\ SelfSources[ev.type] = IF ev.type = "PXE Booting" THEN {"PXE Booting"} ELSE {}
      /\ Sources["PXE Booting"] = {"Planned Reboot", "Machine Reclaim", "Crashed", "Initial"}
  BY DEF SelfSources, Sources, Types, Phases
<1>6. CASE s \in SelfSources[ev.type]
  <2>1. ev.type = "PXE Booting" /\ s = "PXE Booting"
    BY <1>5, <1>6
  <2>2. h = [up EXCEPT !.failedReclaim = "no"]
    BY <1>2, <1>6, <2>1 DEF HandleProvisioningEvent, OnTransition, PXEBootingState
  <2>3. QED  BY <1>1, <1>3, <1>6, <2>1, <2>2 DEF BootOutcome
<1>7. CASE s \in Sources[ev.type] \ SelfSources[ev.type]
  <2>1. h = OnTransition(ev.type, s, ec, ev)
    BY <1>7 DEF HandleProvisioningEvent
  <2>2. CASE ev.type = "PXE Booting"
    <3>1. s # "PXE Booting"
      BY <1>5, <1>7, <2>2
    <3>2. h = [ap EXCEPT !.failedReclaim = "no"]
      BY <1>2, <2>1, <2>2, <3>1 DEF OnTransition, PXEBootingState
    <3>3. QED  BY <1>3, <1>7, <2>2, <3>2 DEF BootOutcome
  <2>3. CASE ev.type = "Preparing"
    <3>1. h = [ap EXCEPT !.failedReclaim = "no"]
      BY <1>2, <2>1, <2>3 DEF OnTransition, PreparingState
    <3>2. QED  BY <1>3, <1>7, <2>3, <3>1 DEF BootOutcome
  <2>4. CASE ev.type = "Crashed"
    <3>1. h = [ap EXCEPT !.crashLoop = "yes"]
      BY <2>1, <2>4 DEF OnTransition, CrashState
    <3>2. QED  BY <1>3, <2>4, <3>1 DEF BootOutcome
  <2>5. CASE ev.type \in {"Registering", "Waiting", "Installing", "Booting New Kernel"}
    <3>1. h = ap
      BY <1>2, <2>1, <2>5
         DEF OnTransition, RegisteringState, WaitingState, InstallingState, BootingNewKernelState
    <3>2. QED  BY <1>1, <2>5, <3>1 DEF BootOutcome
  <2>6. QED  BY <2>2, <2>3, <2>4, <2>5 DEF Phases
<1>8. CASE s \notin SelfSources[ev.type] \cup Sources[ev.type]
  <2>1. h = Unexpected(ec, ev) /\ ev.type # "Alive"
    BY <1>8 DEF HandleProvisioningEvent, Phases
  <2>2. CASE ev.type \in {"PXE Booting", "Preparing"}
    <3>1. h = [ap EXCEPT !.crashLoop = "yes"]
      BY <2>1, <2>2 DEF Unexpected
    <3>2. QED  BY <1>3, <1>8, <2>2, <3>1 DEF BootOutcome
  <2>3. CASE ev.type \notin {"PXE Booting", "Preparing"}
    <3>1. h = ap
      BY <1>4, <2>1, <2>3 DEF Unexpected
    <3>2. QED  BY <1>1, <1>8, <2>3, <3>1 DEF BootOutcome
  <2>4. QED  BY <2>2, <2>3
<1>9. QED  BY <1>6, <1>7, <1>8

(* The state of a container is a state.                                      *)
LEMMA StateIsState ==
    ASSUME NEW ec \in Container
    PROVE  StateOf(ec) \in States
<1> DEFINE e == ec.events
<1>1. e \in Seq(Event)
  BY DEF Container
<1>2. e # <<>> => Head(e) \in Event
  <2> HIDE DEF e
  <2>1. QED  BY <1>1
<1>3. QED  BY <1>2 DEF StateOf, States, Event

(* The two announcements are expected in every state, and end a crash loop.  *)
LEMMA AnnouncementHandled ==
    ASSUME NEW ec \in Container, NEW ev \in Event, NEW h,
           h = HandleProvisioningEvent(ec, ev),
           ev.type \in {"Planned Reboot", "Machine Reclaim"}
    PROVE  /\ StateOf(h) = ev.type /\ h.crashLoop = "no" /\ h.last = ev.time
           /\ Head(h.events) = ev
<1> DEFINE s == StateOf(ec)
           ap == AppendEvent(ec, ev)
<1>1. /\ StateOf(ap) = ev.type /\ ap.last = ev.time /\ Head(ap.events) = ev /\ ap \in Container
  BY Shapes
<1>2. /\ SelfSources["Planned Reboot"] = {"Planned Reboot"} /\ Sources["Planned Reboot"] = States
      /\ SelfSources["Machine Reclaim"] = {"Machine Reclaim"} /\ Sources["Machine Reclaim"] = States
  BY DEF SelfSources, Sources, Types, Phases
<1>3. s \in States
  BY StateIsState
<1>4. h = [ap EXCEPT !.crashLoop = "no"]
  <2>1. CASE ev.type = "Planned Reboot"
    BY <1>2, <1>3, <2>1 DEF HandleProvisioningEvent, OnTransition, PlannedRebootState
  <2>2. CASE ev.type = "Machine Reclaim"
    BY <1>2, <1>3, <2>2 DEF HandleProvisioningEvent, OnTransition, MachineReclaimState
  <2>3. QED  BY <2>1, <2>2
<1> HIDE DEF ap
<1>5. "no" \in Flag
  BY DEF Flag
<1>6. /\ h.crashLoop = "no" /\ h.events = ap.events /\ h.last = ap.last /\ StateOf(h) = StateOf(ap)
  <2>1. /\ [ap EXCEPT !.crashLoop = "no"].crashLoop = "no"
        /\ [ap EXCEPT !.crashLoop = "no"].events = ap.events
        /\ [ap EXCEPT !.crashLoop = "no"].last = ap.last
        /\ StateOf([ap EXCEPT !.crashLoop = "no"]) = StateOf(ap)
    BY <1>1, <1>5, Flags
  <2>2. QED  BY <1>4, <2>1
<1>7. QED  BY <1>1, <1>6

(* The event of a machine that has booted its new kernel ends a crash loop.  *)
LEMMA FirstPhoneHome ==
    ASSUME NEW ec \in Container, NEW ev \in Event, NEW h,
           h = HandleProvisioningEvent(ec, ev),
           ev.type = "Phoned Home", StateOf(ec) = "Booting New Kernel"
    PROVE  StateOf(h) = "Phoned Home" /\ h.crashLoop = "no" /\ h.last = ev.time
<1> DEFINE ap == AppendEvent(ec, ev)
<1>1. /\ StateOf(ap) = ev.type /\ ap.last = ev.time /\ ap \in Container
  BY Shapes
<1>2. /\ "Booting New Kernel" \notin SelfSources["Phoned Home"]
      /\ "Booting New Kernel" \in Sources["Phoned Home"]
  BY DEF SelfSources, Sources, Types, Phases
<1>3. h = [ap EXCEPT !.crashLoop = "no"]
  BY <1>2 DEF HandleProvisioningEvent, OnTransition, PhonedHomeState
<1> HIDE DEF ap
<1>4. "no" \in Flag
  BY DEF Flag
<1>5. h.crashLoop = "no" /\ h.last = ap.last /\ StateOf(h) = StateOf(ap)
  <2>1. /\ [ap EXCEPT !.crashLoop = "no"].crashLoop = "no"
        /\ [ap EXCEPT !.crashLoop = "no"].last = ap.last
        /\ StateOf([ap EXCEPT !.crashLoop = "no"]) = StateOf(ap)
    BY <1>1, <1>4, Flags
  <2>2. QED  BY <1>3, <2>1
<1>6. QED  BY <1>1, <1>5

(* A phone home event that comes from the buffer, or again: if it is         *)
(* swallowed as it should be, or leaves the history alone, then it leaves    *)
(* the flag of the crash loop alone too, and a flag of a failed reclaim that *)
(* is set stays set while the machine is being reclaimed.                    *)
LEMMA RepeatedPhoneHome ==
    ASSUME NEW ec \in Container, NEW ev \in Event, NEW h,
           h = HandleProvisioningEvent(ec, ev), ev.type = "Phoned Home",
           ec.events # <<>> => ec.last # Nothing,
           \/ h.events = ec.events
           \/ /\ StateOf(ec) \in {"PXE Booting", "Preparing", "Registering", "Waiting"}
              /\ ev.time < ec.last + Threshold
    PROVE  /\ h.events = ec.events /\ h.crashLoop = ec.crashLoop
           /\ h.events # <<>> => h.last # Nothing
           /\ StateOf(ec) = "Machine Reclaim" => h = ReclaimPhonedHome(ec, ev)
<1> DEFINE s == StateOf(ec)
           up == UpdateTime(ec, ev)
           ap == AppendEvent(ec, ev)
<1>1. /\ up.events = ec.events /\ up.crashLoop = ec.crashLoop /\ up.last # Nothing
      /\ ap.events # ec.events
      /\ up \in Container /\ ap \in Container
  BY Shapes
<1>2. "yes" \in Flag /\ "no" \in Flag
  BY DEF Flag
<1>3. \A f \in Flag :
         /\ [up EXCEPT !.failedReclaim = f].events = up.events
         /\ [up EXCEPT !.failedReclaim = f].crashLoop = up.crashLoop
         /\ [up EXCEPT !.failedReclaim = f].last = up.last
         /\ [ap EXCEPT !.failedReclaim = f].events = ap.events
         /\ [ap EXCEPT !.crashLoop = f].events = ap.events
  <2> HIDE DEF up, ap
  <2>1. QED  BY <1>1, Flags
<1>4. /\ SelfSources["Phoned Home"] = {"Planned Reboot", "Phoned Home", "PXE Booting", "Preparing",
                                       "Registering", "Waiting"}
      /\ Sources["Phoned Home"] = {"Booting New Kernel", "Machine Reclaim", "Initial"}
  BY DEF SelfSources, Sources, Types, Phases
<1>5. s # "Initial" => ec.events # <<>>
  BY DEF StateOf
<1>6. CASE s \in {"PXE Booting", "Preparing", "Registering", "Waiting"}
  <2>1. h = OnTransition(s, s, ec, ev)
    BY <1>4, <1>6 DEF HandleProvisioningEvent
  <2>2. CASE SwallowBuffered(ec, ev)
    <3>1. h = ec
      BY <1>6, <2>1, <2>2
         DEF OnTransition, PXEBootingState, PreparingState, RegisteringState, WaitingState
    <3>2. QED  BY <1>6, <3>1
  <2>3. CASE ~SwallowBuffered(ec, ev)
    <3>1. h.events = ec.events
      BY <1>5, <1>6, <2>3 DEF SwallowBuffered
    <3>2. \/ h = [up EXCEPT !.failedReclaim = "no"]
          \/ h = [ap EXCEPT !.failedReclaim = "no"]
          \/ h = ap
      BY <1>6, <2>1, <2>3
         DEF OnTransition, PXEBootingState, PreparingState, RegisteringState, WaitingState
    <3> HIDE DEF up, ap
    <3>3. h = [up EXCEPT !.failedReclaim = "no"]
      BY <1>1, <1>2, <1>3, <3>1, <3>2
    <3>4. QED  BY <1>1, <1>2, <1>3, <1>6, <3>3
  <2>4. QED  BY <2>2, <2>3
<1>7. CASE s \notin {"PXE Booting", "Preparing", "Registering", "Waiting"}
  <2>1. h.events = ec.events
    BY <1>7
  <2>2. CASE s = "Phoned Home"
    <3>1. h = up
      BY <1>4, <2>2 DEF HandleProvisioningEvent, OnTransition, PhonedHomeState
    <3>2. QED  BY <1>1, <2>2, <3>1
  <2>3. CASE s = "Machine Reclaim"
    <3>1. h = ReclaimPhonedHome(ec, ev)
      BY <1>4, <2>3 DEF HandleProvisioningEvent, OnTransition, PhonedHomeState
    <3>2. h = ec \/ h = up \/ h = [up EXCEPT !.failedReclaim = "yes"]
      BY <3>1 DEF ReclaimPhonedHome
    <3> HIDE DEF up, ap
    <3>3. QED  BY <1>1, <1>2, <1>3, <3>1, <3>2
  <2>4. CASE s \notin {"Phoned Home", "Machine Reclaim"}
    <3>1. CASE s = "Planned Reboot"
      <4>1. h = [ap EXCEPT !.crashLoop = "no"]
        BY <1>4, <3>1 DEF HandleProvisioningEvent, OnTransition, PlannedRebootState
      <4> HIDE DEF up, ap
      <4>2. QED  BY <1>1, <1>2, <1>3, <2>1, <4>1
    <3>2. CASE s \in {"Booting New Kernel", "Initial"}
      <4>1. h = [ap EXCEPT !.crashLoop = "no"]
        BY <1>4, <3>2 DEF HandleProvisioningEvent, OnTransition, PhonedHomeState
      <4> HIDE DEF up, ap
      <4>2. QED  BY <1>1, <1>2, <1>3, <2>1, <4>1
    <3>3. CASE s \notin {"Planned Reboot", "Booting New Kernel", "Initial"}
      <4>1. h = [ap EXCEPT !.crashLoop = ap.crashLoop]
        BY <1>4, <1>7, <2>4, <3>3 DEF HandleProvisioningEvent, Unexpected
      <4>2. ap.crashLoop \in Flag
        BY <1>1 DEF Container
      <4> HIDE DEF up, ap
      <4>3. QED  BY <1>1, <1>3, <2>1, <4>1, <4>2
    <3>4. QED  BY <3>1, <3>2, <3>3
  <2>5. QED  BY <1>7, <2>2, <2>3, <2>4
<1>8. QED  BY <1>6, <1>7

(* Trimming shows neither in the state nor in the flags.                     *)
LEMMA TrimShapes ==
    ASSUME NEW ec \in Container
    PROVE  /\ TrimEvents(ec) \in Container /\ TrimEvents(ec).last = ec.last
           /\ TrimEvents(ec).crashLoop = ec.crashLoop
           /\ TrimEvents(ec).failedReclaim = ec.failedReclaim
           /\ TrimEvents(ec).events = <<>> <=> ec.events = <<>>
           /\ ec.events # <<>> => Head(TrimEvents(ec).events) = Head(ec.events)
           /\ StateOf(TrimEvents(ec)) = StateOf(ec)
<1> DEFINE t == TrimEvents(ec)
<1>1. t \in Container /\ t.last = ec.last
  BY Trimming
<1>2. t.crashLoop = ec.crashLoop /\ t.failedReclaim = ec.failedReclaim
  BY DEF TrimEvents, Container
<1>3. ec.events \in Seq(Event) /\ MaxEvents \in Nat \ {0}
  BY Bounds DEF Container
<1>4. t.events = ec.events \/ (Len(ec.events) > MaxEvents /\ t.events = SubSeq(ec.events, 1, MaxEvents))
  BY DEF TrimEvents, Container
<1> HIDE DEF t
<1>5. /\ t.events = <<>> <=> ec.events = <<>>
      /\ ec.events # <<>> => Head(t.events) = Head(ec.events)
  <2>1. CASE t.events = ec.events
    BY <2>1
  <2>2. CASE Len(ec.events) > MaxEvents /\ t.events = SubSeq(ec.events, 1, MaxEvents)
    <3>1. Len(t.events) = MaxEvents /\ t.events[1] = ec.events[1] /\ t.events \in Seq(Event)
      BY <1>3, <2>2
    <3>2. QED  BY <1>3, <2>2, <3>1
  <2>3. QED  BY <1>4, <2>1, <2>2
<1>6. StateOf(t) = StateOf(ec)
  BY <1>5 DEF StateOf
<1>7. QED  BY <1>1, <1>2, <1>5, <1>6 DEF t

(* The container that the next call would read, and the state it is in; and  *)
(* the type of the event that belongs to the phase of the machine.           *)
Present == IF container = Nothing THEN EmptyContainer ELSE container
StateNow == StateOf(Present)
PhaseType == CASE phase = "off" -> "Initial" [] phase = "crashed" -> "Crashed" [] OTHER -> phase

(* Every call is one that its sender is waiting for, or one of those that    *)
(* nobody waits for; at most one of the former of each kind.                 *)
OneRegular(c) ==
    /\ call[c].by = "boot" => reported = "sending" /\ call[c].event.type = PhaseType
    /\ call[c].by = "announcement" =>
         announced = "sending" /\ call[c].event.type \in {"Planned Reboot", "Machine Reclaim"}
    /\ call[c].by = "hammer" => call[c].event.type = "Alive"
    /\ call[c].by \in {"system", "buffer"} => call[c].event.type = "Phoned Home"
    /\ call[c].by = "nobody" => call[c].st = "idle"
    /\ call[c].st \in {"register", "registerec"} => call[c].by = "hammer"
CallsRegular ==
    /\ \A c \in Calls : OneRegular(c)
    /\ \A c, d \in Calls :
          call[c].by = call[d].by /\ call[c].by \in {"boot", "announcement"} => c = d

(* The state of the container follows the machine: it is the announced one,  *)
(* or the one that the machine reported; before the report it is one that    *)
(* the new phase can come from.                                              *)
PhaseRegular ==
    /\ announced # "no" => reported = "yes" /\ phase # "off"
    /\ phase = "off" => reported = "yes"
    /\ announced = "yes" => StateNow \in {"Planned Reboot", "Machine Reclaim"}
    /\ reported = "yes" /\ announced # "yes" => StateNow = PhaseType
    /\ reported # "yes" =>
          \/ phase \in {"PXE Booting", "Preparing"}
          \/ phase = "crashed" /\ StateNow \in Phases \ {"PXE Booting", "Phoned Home"}
          \/ StateNow \in DOMAIN NextPhase /\ phase = NextPhase[StateNow]

(* A fault whose first event is still on its way.                            *)
Detecting ==
    /\ reported # "yes"
    /\ \/ phase = "crashed"
       \/ /\ phase \in {"PXE Booting", "Preparing"}
          /\ StateNow \notin Sources[phase] \cup SelfSources[phase]

(* The flag of the crash loop tells of a fault, from the first event after   *)
(* it on.                                                                    *)
LoopRegular ==
    /\ Present.crashLoop = "yes" => fault = "yes"
    /\ StateNow = "Crashed" => Present.crashLoop = "yes"
    /\ fault = "yes" => Present.crashLoop = "yes" \/ Detecting
    /\ Detecting => fault = "yes"
    /\ Present.events # <<>> => Present.last # Nothing

(* A reclaimed machine that goes on phoning home has no installation that    *)
(* could send signs of life; until the flag is set the last event time is    *)
(* the one of the reclaim.                                                   *)
ReclaimRegular ==
    phase = "Phoned Home" =>
        /\ NoHammerCall
        /\ StateNow = "Machine Reclaim" =>
             Present.failedReclaim = "yes" \/ Present.last = Head(Present.events).time

RegularNow == CallsRegular /\ PhaseRegular /\ LoopRegular /\ ReclaimRegular

(* The invariant: as long as no event was lost or came out of order.         *)
Regular == irregular = 0 => RegularNow

(* An irregularity is never forgotten.                                       *)
LEMMA IrregularStays ==
    ASSUME TypeOK, [Next]_vars, irregular' = 0
    PROVE  irregular = 0
<1>1. irregular \in Nat
  BY Bounds DEF TypeOK
<1>2. irregular # 0 => irregular + 1 # 0
  BY <1>1
<1>3. ASSUME NEW c \in Calls, NEW by, NEW type, Send(c, by, type) PROVE irregular = 0
  BY <1>2, <1>3 DEF Send
<1>4. ASSUME Irregular \/ UNCHANGED irregular PROVE irregular = 0
  BY <1>4 DEF Irregular
<1>5. ASSUME NEW c \in Calls,
             \/ CreateMachine(c) \/ CreateMachineConflict(c)
             \/ FindContainer(c) \/ StoreContainer(c) \/ StoreContainerInvalid(c) \/ LoseCall(c)
             \/ RegisterMachine(c) \/ RegisterFind(c) \/ RegisterContainer(c)
      PROVE  irregular = 0
  <2>1. Irregular \/ UNCHANGED irregular
    BY <1>5 DEF CreateMachine, CreateMachineConflict, FindContainer, StoreContainer,
                StoreContainerInvalid, LoseCall, RegisterMachine, RegisterFind, RegisterContainer
  <2>2. QED  BY <1>4, <2>1
<1>6. ASSUME NEW c \in Calls,
             \/ Report(c) \/ SignOfLife(c) \/ DeliverDelayed(c)
             \/ \E type \in Announcements : Announce(c, type)
      PROVE  irregular = 0
  <2>1. \E by, type : Send(c, by, type)
    BY <1>6, Zenon DEF Report, SignOfLife, DeliverDelayed, Announce
  <2>2. QED  BY <1>3, <2>1
<1>7. ASSUME Proceed \/ Restart \/ Crash \/ Tick \/ UNCHANGED vars PROVE irregular = 0
  <2>1. Irregular \/ UNCHANGED irregular
    BY <1>7 DEF Proceed, Restart, Crash, Tick, vars
  <2>2. QED  BY <1>4, <2>1
<1>8. QED  BY <1>5, <1>6, <1>7 DEF Next

(* A call that ends takes nothing from what is said of the others.           *)
LEMMA ReturnRegular ==
    ASSUME CallsOK, CallsRegular, NEW c \in Calls, Return(c)
    PROVE  CallsRegular'
<1>1. \A d \in Calls : call'[d] = IF d = c THEN Idle ELSE call[d]
  BY DEF Return, CallsOK
<1>2. phase' = phase /\ PhaseType' = PhaseType
  BY DEF Return, PhaseType
<1>3. \A d \in Calls \ {c} : call[d].by = "boot" => reported' = reported
  BY DEF Return, CallsRegular, OneRegular
<1>4. \A d \in Calls \ {c} : call[d].by = "announcement" => announced' = announced
  BY DEF Return, CallsRegular, OneRegular
<1>5. Idle.st = "idle" /\ Idle.by = "nobody"
  BY DEF Idle
<1>6. ASSUME NEW d \in Calls PROVE OneRegular(d)'
  <2>1. OneRegular(d)
    BY DEF CallsRegular
  <2>2. CASE d = c
    BY <1>1, <1>5, <2>2 DEF OneRegular
  <2>3. CASE d # c
    BY <1>1, <1>2, <1>3, <1>4, <2>1, <2>3 DEF OneRegular
  <2>4. QED  BY <2>2, <2>3
<1>7. ASSUME NEW d \in Calls, NEW e \in Calls,
             call'[d].by = call'[e].by, call'[d].by \in {"boot", "announcement"}
      PROVE  d = e
  <2>1. d # c /\ e # c
    BY <1>1, <1>5, <1>7
  <2>2. QED  BY <1>1, <1>7, <2>1 DEF CallsRegular
<1>8. QED  BY <1>6, <1>7 DEF CallsRegular

(* A call that goes on, as the one that it was.                              *)
LEMMA GoOnRegular ==
    ASSUME CallsRegular, UNCHANGED envVars, NEW c \in Calls,
           \A d \in Calls \ {c} : call'[d] = call[d],
           call'[c].by = call[c].by, call'[c].event.type = call[c].event.type,
           call[c].st # "idle",
           call'[c].st \in {"register", "registerec"} => call[c].st \in {"register", "registerec"}
    PROVE  CallsRegular'
<1>1. PhaseType' = PhaseType /\ reported' = reported /\ announced' = announced
  BY DEF envVars, PhaseType
<1>2. call[c].by # "nobody"
  BY DEF CallsRegular, OneRegular
<1>3. \A d \in Calls : /\ call'[d].by = call[d].by /\ call'[d].event.type = call[d].event.type
                       /\ call'[d].st = call[d].st \/ call[d].by # "nobody"
                       /\ call'[d].st \in {"register", "registerec"} =>
                            call[d].st \in {"register", "registerec"}
  BY <1>2
<1>4. ASSUME NEW d \in Calls PROVE OneRegular(d)'
  <2>1. OneRegular(d)
    BY DEF CallsRegular
  <2>2. QED  BY <1>1, <1>3, <2>1 DEF OneRegular
<1>5. ASSUME NEW d \in Calls, NEW e \in Calls,
             call'[d].by = call'[e].by, call'[d].by \in {"boot", "announcement"}
      PROVE  d = e
  BY <1>3, <1>5 DEF CallsRegular
<1>6. QED  BY <1>4, <1>5 DEF CallsRegular

(* What a call that begins looks like.                                       *)
LEMMA Sent ==
    ASSUME CallsOK, NEW c \in Calls, NEW by, NEW type, Send(c, by, type)
    PROVE  /\ \A d \in Calls \ {c} : call'[d] = call[d]
           /\ call'[c].by = by /\ call'[c].event.type = type
           /\ call'[c].st \in {"find", "create"}
<1>1. CASE row = "present"
  <2> DEFINE entry == [st |-> "find", by |-> by, seen |-> Nothing,
                       event |-> [type |-> type, time |-> clock]]
  <2>1. call' = [call EXCEPT ![c] = entry]
    BY <1>1 DEF Send, Stamped
  <2>2. entry.by = by /\ entry.event.type = type /\ entry.st = "find"
    OBVIOUS
  <2> HIDE DEF entry
  <2>3. QED  BY <2>1, <2>2 DEF CallsOK
<1>2. CASE row # "present"
  <2> DEFINE entry == [st |-> "create", by |-> by, seen |-> Nothing,
                       event |-> [NoEvent EXCEPT !.type = type]]
  <2>1. call' = [call EXCEPT ![c] = entry]
    BY <1>2 DEF Send
  <2>2. entry.by = by /\ entry.event.type = type /\ entry.st = "create"
    BY DEF NoEvent
  <2> HIDE DEF entry
  <2>3. QED  BY <2>1, <2>2 DEF CallsOK
<1>3. QED  BY <1>1, <1>2

(* What is stored for a sign of life or a repeated phone home changes        *)
(* nothing for the machine.                                                  *)
LEMMA QuietStore ==
    ASSUME PhaseRegular, LoopRegular, UNCHANGED <<phase, reported, announced, fault>>,
           Present'.crashLoop = Present.crashLoop, StateNow' = StateNow,
           Present'.events # <<>> => Present'.last # Nothing
    PROVE  PhaseRegular' /\ LoopRegular'
<1>1. PhaseType' = PhaseType /\ Detecting' = Detecting
  BY DEF PhaseType, Detecting
<1>2. PhaseRegular'
  BY <1>1 DEF PhaseRegular
<1>3. LoopRegular'
  BY <1>1 DEF LoopRegular
<1>4. QED  BY <1>2, <1>3

(* What is stored is computed from what is stored by then, and it is what    *)
(* the next call reads.                                                      *)
LEMMA StoreInOrder ==
    ASSUME TypeOK, NEW c \in Calls, StoreContainer(c), irregular = 0, irregular' = 0
    PROVE  /\ call[c].event \in Event /\ Present \in Container /\ Found(c) = Present
           /\ Handled(c) = HandleProvisioningEvent(Present, call[c].event)
           /\ Handled(c) \in Container
           /\ call[c].by \in {"buffer", "system"} =>
                \/ Handled(c).events = Present.events
                \/ /\ StateOf(Present) \in {"PXE Booting", "Preparing", "Registering", "Waiting"}
                   /\ call[c].event.time < Present.last + Threshold
           /\ StateNow' = StateOf(Handled(c)) /\ Present'.last = Handled(c).last
           /\ Present'.crashLoop = Handled(c).crashLoop
           /\ Present'.failedReclaim = Handled(c).failedReclaim
           /\ Present'.events = <<>> <=> Handled(c).events = <<>>
           /\ Handled(c).events # <<>> => Head(Present'.events) = Head(Handled(c).events)
           /\ container' = Present'
<1>1. call[c] \in Entry /\ call[c].event \in Event /\ container \in Container \cup {Nothing}
  BY TypeParts DEF CallsOK, ContainerOK, Entry
<1>2. ~OutOfOrder(c)
  <2>1. OutOfOrder(c) => Irregular
    BY Zenon DEF StoreContainer
  <2>2. ~Irregular
    BY DEF Irregular
  <2>3. QED  BY <2>1, <2>2
<1>3. Found(c) = Present
  BY <1>2 DEF OutOfOrder, Found, Present
<1>4. Present \in Container
  BY <1>1, Constants DEF Present
<1>5. Handled(c) = HandleProvisioningEvent(Present, call[c].event) /\ Handled(c) \in Container
  BY <1>1, <1>3, HandledType DEF Handled, Handles
<1>6. call[c].by \in {"buffer", "system"} =>
                \/ Handled(c).events = Present.events
                \/ /\ StateOf(Present) \in {"PXE Booting", "Preparing", "Registering", "Waiting"}
                   /\ call[c].event.time < Present.last + Threshold
  BY <1>2, <1>3 DEF OutOfOrder, ExpectedToBeSwallowed
<1>7. container' = TrimEvents(Handled(c)) /\ container' \in Container
  BY <1>5, Trimming DEF StoreContainer
<1>8. Present' = TrimEvents(Handled(c)) /\ container' = Present'
  BY <1>7, Constants DEF Present
<1>9. StateNow' = StateOf(TrimEvents(Handled(c)))
  BY <1>8 DEF StateNow
<1>10. QED  BY <1>1, <1>3, <1>4, <1>5, <1>6, <1>8, <1>9, TrimShapes

(* A phone home event while the machine is being reclaimed sets the flag or  *)
(* changes nothing; a flag that is set stays set.                            *)
LEMMA ReclaimHandled ==
    ASSUME NEW ec \in Container, NEW ev \in Event, NEW h, h = ReclaimPhonedHome(ec, ev)
    PROVE  /\ h = ec \/ h.failedReclaim = "yes"
           /\ ec.failedReclaim = "yes" => h.failedReclaim = "yes"
           /\ ec.last # Nothing /\ ev.time > ec.last + Threshold => h.failedReclaim = "yes"
<1> DEFINE up == UpdateTime(ec, ev)
<1>1. up \in Container /\ up.failedReclaim = ec.failedReclaim
  BY Shapes
<1>2. \/ h = [up EXCEPT !.failedReclaim = "yes"] /\ ec.last # Nothing
      \/ h = ec /\ ~(ec.last # Nothing /\ ev.time > ec.last + Threshold)
  BY DEF ReclaimPhonedHome
<1> HIDE DEF up
<1>3. [up EXCEPT !.failedReclaim = "yes"].failedReclaim = "yes"
  BY <1>1, Flags DEF Flag
<1>4. QED  BY <1>1, <1>2, <1>3

(* A call that is stored in order keeps the regularity, whoever sent it.     *)
LEMMA StoreRegular ==
    ASSUME TypeOK, RegularNow, NEW c \in Calls, StoreContainer(c), irregular = 0, irregular' = 0
    PROVE  RegularNow'
<1> DEFINE ev == call[c].event
           h == Handled(c)
           s == StateOf(Present)
<1>1. /\ ev \in Event /\ Present \in Container /\ h = HandleProvisioningEvent(Present, ev)
      /\ h \in Container
      /\ StateNow' = StateOf(h) /\ Present'.last = h.last
      /\ Present'.crashLoop = h.crashLoop /\ Present'.failedReclaim = h.failedReclaim
      /\ Present'.events = <<>> <=> h.events = <<>>
      /\ h.events # <<>> => Head(Present'.events) = Head(h.events)
  BY StoreInOrder
<1>2. call[c].by \in {"buffer", "system"} =>
        \/ h.events = Present.events
        \/ /\ s \in {"PXE Booting", "Preparing", "Registering", "Waiting"}
           /\ ev.time < Present.last + Threshold
  BY StoreInOrder
<1>3. call[c].st = "store" /\ Return(c) /\ phase' = phase /\ delayed' = delayed
  BY DEF StoreContainer, Return
<1>4. OneRegular(c) /\ CallsOK /\ CallsRegular /\ PhaseRegular /\ LoopRegular /\ ReclaimRegular
  BY TypeParts DEF RegularNow, CallsRegular
<1>5. CallsRegular'
  BY <1>3, <1>4, ReturnRegular
<1>6. call[c].by \in {"boot", "announcement", "hammer", "system", "buffer"}
  <2>1. call[c] \in Entry
    BY <1>4 DEF CallsOK
  <2>2. call[c].by # "nobody"
    BY <1>3, <1>4 DEF OneRegular
  <2>3. QED  BY <2>1, <2>2 DEF Entry
<1>7. NoHammerCall => NoHammerCall'
  <2>1. \A d \in Calls : call'[d].by = "nobody" \/ call'[d] = call[d]
    BY <1>3, <1>4 DEF Return, CallsOK, Idle
  <2>2. QED  BY <2>1 DEF NoHammerCall
<1>8. StateNow = s /\ PhaseType' = PhaseType /\ ev.time # Nothing
  BY <1>1, <1>3, Shapes DEF StateNow, PhaseType
<1> HIDE DEF ev, h, s
<1>9. CASE call[c].by = "boot"
  <2>1. ev.type = PhaseType /\ reported = "sending"
    BY <1>4, <1>9 DEF OneRegular, ev
  <2>2. announced = "no" /\ phase # "off"
    <3>1. announced # "no" => reported = "yes"
      BY <1>4 DEF PhaseRegular
    <3>2. phase = "off" => reported = "yes"
      BY <1>4 DEF PhaseRegular
    <3>3. QED  BY <2>1, <3>1, <3>2
  <2>3. reported' = "yes" /\ announced' = announced
    BY <1>3, <1>9 DEF Return
  <2>4. phase \in Phases \cup {"crashed"}
    BY <2>2, TypeParts DEF RestOK
  <2>5. \/ phase \in {"PXE Booting", "Preparing"}
        \/ phase = "crashed" /\ s \in Phases \ {"PXE Booting", "Phoned Home"}
        \/ s \in DOMAIN NextPhase /\ phase = NextPhase[s]
    BY <1>4, <1>8, <2>1 DEF PhaseRegular
  <2>6. CASE phase = "Phoned Home"
    <3>1. s = "Booting New Kernel"
      BY <2>5, <2>6 DEF NextPhase, Phases
    <3>2. ev.type = "Phoned Home"
      BY <2>1, <2>6 DEF PhaseType
    <3>3. StateOf(h) = "Phoned Home" /\ h.crashLoop = "no" /\ h.last = ev.time
      BY <1>1, <3>1, <3>2, FirstPhoneHome DEF s
    <3>4. fault' = "no"
      BY <1>9, <3>2 DEF StoreContainer, ev
    <3>5. PhaseRegular'
      BY <1>1, <1>3, <2>2, <2>3, <2>6, <3>3 DEF PhaseRegular, PhaseType
    <3>6. LoopRegular'
      BY <1>1, <1>8, <2>3, <3>3, <3>4 DEF LoopRegular, Detecting
    <3>7. ReclaimRegular'
      BY <1>1, <1>3, <1>4, <1>7, <2>6, <3>3 DEF ReclaimRegular
    <3>8. QED  BY <1>5, <3>5, <3>6, <3>7 DEF RegularNow
  <2>7. CASE phase # "Phoned Home"
    <3>1. ev.type \in (Phases \ {"Phoned Home"}) \cup {"Crashed"}
      BY <2>1, <2>2, <2>4, <2>7 DEF PhaseType, Phases
    <3>2. /\ StateOf(h) = ev.type /\ h.last = ev.time
          /\ ev.type \in {"PXE Booting", "Preparing"} =>
               h.crashLoop = IF s \in Sources[ev.type] \cup SelfSources[ev.type]
                             THEN Present.crashLoop ELSE "yes"
          /\ ev.type = "Crashed" /\ s \in Sources["Crashed"] => h.crashLoop = "yes"
          /\ ev.type \notin {"PXE Booting", "Preparing", "Crashed"} => h.crashLoop = Present.crashLoop
      <4>1. BootOutcome(Present, ev, h)
        BY <1>1, <3>1, BootHandled
      <4>2. s = StateOf(Present)
        BY DEF s
      <4>3. QED  BY <4>1, <4>2 DEF BootOutcome
    <3>3. fault' = fault
      BY <1>9, <3>1 DEF StoreContainer, ev
    <3>4. PhaseRegular'
      BY <1>1, <1>3, <1>8, <2>1, <2>2, <2>3, <3>2 DEF PhaseRegular
    <3>5. ~Detecting'
      BY <2>3 DEF Detecting
    <3>6. /\ h.crashLoop = "yes" => fault = "yes"
          /\ ev.type = "Crashed" => h.crashLoop = "yes"
          /\ fault = "yes" => h.crashLoop = "yes"
      <4>1. /\ Present.crashLoop = "yes" => fault = "yes"
            /\ fault = "yes" => Present.crashLoop = "yes" \/ Detecting
            /\ Detecting => fault = "yes"
        BY <1>4 DEF LoopRegular
      <4>2. CASE phase = "crashed"
        <5>1. ev.type = "Crashed" /\ Detecting
          BY <2>1, <4>2 DEF PhaseType, Detecting
        <5>2. s \in Phases \ {"PXE Booting", "Phoned Home"}
          BY <2>5, <4>2 DEF NextPhase, Phases
        <5>3. s \in Sources["Crashed"]
          BY <5>2 DEF Sources, Types, Phases
        <5>4. QED  BY <3>2, <4>1, <5>1, <5>3
      <4>3. CASE phase \in {"PXE Booting", "Preparing"}
        <5>1. ev.type = phase
          BY <2>1, <4>3 DEF PhaseType
        <5>2. Detecting <=> s \notin Sources[phase] \cup SelfSources[phase]
          BY <1>8, <2>1, <4>3 DEF Detecting
        <5>3. QED  BY <3>2, <4>1, <4>3, <5>1, <5>2
      <4>4. CASE phase \notin {"crashed", "PXE Booting", "Preparing"}
        <5>1. ev.type = phase /\ ~Detecting
          BY <2>1, <2>2, <4>4 DEF PhaseType, Detecting
        <5>2. phase # "Crashed"
          BY <2>4 DEF Phases
        <5>3. h.crashLoop = Present.crashLoop
          BY <3>2, <4>4, <5>1, <5>2
        <5>4. QED  BY <4>1, <5>1, <5>2, <5>3
      <4>5. QED  BY <4>2, <4>3, <4>4
    <3>7. LoopRegular'
      BY <1>1, <1>8, <3>2, <3>3, <3>5, <3>6 DEF LoopRegular
    <3>8. ReclaimRegular'
      BY <1>3, <2>7 DEF ReclaimRegular
    <3>9. QED  BY <1>5, <3>4, <3>7, <3>8 DEF RegularNow
  <2>8. QED  BY <2>6, <2>7
<1>10. CASE call[c].by = "announcement"
  <2>1. ev.type \in {"Planned Reboot", "Machine Reclaim"} /\ announced = "sending"
    BY <1>4, <1>10 DEF OneRegular, ev
  <2>2. reported = "yes" /\ phase # "off"
    BY <1>4, <2>1 DEF PhaseRegular
  <2>3. reported' = "yes" /\ announced' = "yes" /\ fault' = "no"
    BY <1>3, <1>10, <2>2 DEF Return, StoreContainer
  <2>4. StateOf(h) = ev.type /\ h.crashLoop = "no" /\ h.last = ev.time /\ Head(h.events) = ev
    BY <1>1, <2>1, AnnouncementHandled
  <2>5. PhaseRegular'
    BY <1>1, <1>3, <2>1, <2>2, <2>3, <2>4 DEF PhaseRegular
  <2>6. LoopRegular'
    BY <1>1, <1>8, <2>1, <2>3, <2>4 DEF LoopRegular, Detecting
  <2>7. h.events # <<>>
    BY <2>1, <2>4 DEF StateOf
  <2>8. ReclaimRegular'
    BY <1>1, <1>3, <1>4, <1>7, <2>4, <2>7 DEF ReclaimRegular
  <2>9. QED  BY <1>5, <2>5, <2>6, <2>8 DEF RegularNow
<1>11. CASE call[c].by = "hammer"
  <2>1. ev.type = "Alive"
    BY <1>4, <1>11 DEF OneRegular, ev
  <2>2. h = UpdateTime(Present, ev)
    BY <1>1, <2>1, AliveHandled
  <2>3. StateOf(h) = s /\ h.crashLoop = Present.crashLoop /\ h.last = ev.time
    BY <1>1, <2>2, Shapes DEF s
  <2>4. reported' = reported /\ announced' = announced /\ fault' = fault
    BY <1>3, <1>11 DEF Return, StoreContainer
  <2>5. PhaseRegular' /\ LoopRegular'
    BY <1>1, <1>3, <1>4, <1>8, <2>3, <2>4, QuietStore
  <2>6. ReclaimRegular'
    BY <1>3, <1>4, <1>11 DEF ReclaimRegular, NoHammerCall
  <2>7. QED  BY <1>5, <2>5, <2>6 DEF RegularNow
<1>12. CASE call[c].by \in {"system", "buffer"}
  <2>1. ev.type = "Phoned Home"
    BY <1>4, <1>12 DEF OneRegular, ev
  <2>2. /\ h.events = Present.events /\ h.crashLoop = Present.crashLoop
        /\ h.events # <<>> => h.last # Nothing
        /\ s = "Machine Reclaim" => h = ReclaimPhonedHome(Present, ev)
    <3>1. Present.events # <<>> => Present.last # Nothing
      BY <1>4 DEF LoopRegular
    <3>2. \/ h.events = Present.events
          \/ /\ s \in {"PXE Booting", "Preparing", "Registering", "Waiting"}
             /\ ev.time < Present.last + Threshold
      BY <1>2, <1>12
    <3>3. QED  BY <1>1, <2>1, <3>1, <3>2, RepeatedPhoneHome DEF s
  <2>3. StateOf(h) = s
    BY <2>2 DEF StateOf, s
  <2>4. reported' = reported /\ announced' = announced /\ fault' = fault
    BY <1>3, <1>12, <2>1 DEF Return, StoreContainer
  <2>5. PhaseRegular' /\ LoopRegular'
    BY <1>1, <1>3, <1>4, <1>8, <2>2, <2>3, <2>4, QuietStore
  <2>6. ReclaimRegular'
    <3>1. ASSUME phase = "Phoned Home", s = "Machine Reclaim"
          PROVE  h.failedReclaim = "yes" \/ h.last = Head(h.events).time
      <4>1. Present.failedReclaim = "yes" \/ Present.last = Head(Present.events).time
        BY <1>4, <1>8, <3>1 DEF ReclaimRegular
      <4>2. h = ReclaimPhonedHome(Present, ev)
        BY <2>2, <3>1
      <4>3. /\ h = Present \/ h.failedReclaim = "yes"
            /\ Present.failedReclaim = "yes" => h.failedReclaim = "yes"
        BY <1>1, <4>2, ReclaimHandled
      <4>4. QED  BY <4>1, <4>3
    <3>2. s = "Machine Reclaim" => h.events # <<>>
      BY <2>3 DEF StateOf
    <3>3. QED  BY <1>1, <1>3, <1>4, <1>7, <2>3, <3>1, <3>2 DEF ReclaimRegular
  <2>7. QED  BY <1>5, <2>5, <2>6 DEF RegularNow
<1>13. QED  BY <1>6, <1>9, <1>10, <1>11, <1>12

(* A call that begins keeps what is said of the calls, if it is the only one *)
(* of its kind that its sender waits for.                                    *)
LEMMA SendCalls ==
    ASSUME CallsOK, CallsRegular, UNCHANGED phase, NEW c \in Calls,
           NEW by \in {"boot", "announcement", "hammer", "system", "buffer"}, NEW type, Send(c, by, type),
           by = "boot" => reported = "no" /\ reported' = "sending" /\ type = PhaseType,
           by # "boot" => reported' = reported,
           by = "announcement" => /\ announced = "no" /\ announced' = "sending"
                                  /\ type \in {"Planned Reboot", "Machine Reclaim"},
           by # "announcement" => announced' = announced,
           by = "hammer" => type = "Alive",
           by \in {"system", "buffer"} => type = "Phoned Home"
    PROVE  CallsRegular'
<1>1. /\ \A d \in Calls \ {c} : call'[d] = call[d]
      /\ call'[c].by = by /\ call'[c].event.type = type
      /\ call'[c].st \in {"find", "create"}
  BY Sent
<1>2. PhaseType' = PhaseType
  BY DEF PhaseType
<1>3. \A d \in Calls : OneRegular(d)
  BY DEF CallsRegular
<1>4. \A d \in Calls : by \in {"boot", "announcement"} => call[d].by # by
  BY <1>3 DEF OneRegular
<1>5. ASSUME NEW d \in Calls PROVE OneRegular(d)'
  <2>1. CASE d = c
    BY <1>1, <1>2, <2>1 DEF OneRegular
  <2>2. CASE d # c
    <3>1. call'[d] = call[d] /\ OneRegular(d)
      BY <1>1, <1>3, <2>2
    <3>2. call[d].by = "boot" => reported' = reported
      BY <1>4
    <3>3. call[d].by = "announcement" => announced' = announced
      BY <1>4
    <3>4. QED  BY <1>2, <3>1, <3>2, <3>3 DEF OneRegular
  <2>3. QED  BY <2>1, <2>2
<1>6. ASSUME NEW d \in Calls, NEW e \in Calls,
             call'[d].by = call'[e].by, call'[d].by \in {"boot", "announcement"}
      PROVE  d = e
  <2>1. CASE d # c /\ e # c
    BY <1>1, <1>6, <2>1 DEF CallsRegular
  <2>2. CASE d = c /\ e # c
    BY <1>1, <1>4, <1>6, <2>2
  <2>3. CASE d # c /\ e = c
    BY <1>1, <1>4, <1>6, <2>3
  <2>4. QED  BY <2>1, <2>2, <2>3
<1>7. QED  BY <1>5, <1>6 DEF CallsRegular

(* No report or announcement is on its way.                                  *)
LEMMA NobodyWaits ==
    ASSUME CallsRegular, reported # "sending", announced # "sending",
           UNCHANGED call
    PROVE  CallsRegular'
<1>1. \A d \in Calls : OneRegular(d) /\ call[d].by \notin {"boot", "announcement"}
  BY DEF CallsRegular, OneRegular
<1>2. \A d \in Calls : OneRegular(d)'
  BY <1>1 DEF OneRegular
<1>3. QED  BY <1>1, <1>2 DEF CallsRegular

(* What does not depend on the calls.                                        *)
LEMMA SameMachine ==
    ASSUME PhaseRegular, LoopRegular, UNCHANGED <<container, phase, reported, announced, fault>>
    PROVE  PhaseRegular' /\ LoopRegular'
<1>1. Present' = Present /\ StateNow' = StateNow
  BY DEF Present, StateNow
<1>2. QED  BY <1>1, QuietStore DEF LoopRegular

(* Every step that is in order keeps the regularity.                         *)
LEMMA RegularStep ==
    ASSUME TypeOK, RegularNow, [Next]_vars, irregular = 0, irregular' = 0
    PROVE  RegularNow'
<1>0. CallsOK /\ RestOK /\ CallsRegular /\ PhaseRegular /\ LoopRegular /\ ReclaimRegular
  BY TypeParts DEF RegularNow
<1> DEFINE s == StateNow
<1>1. ASSUME Irregular PROVE FALSE
  BY <1>1 DEF Irregular
<1>2. ASSUME UNCHANGED container PROVE Present' = Present /\ StateNow' = StateNow
  BY <1>2 DEF Present, StateNow
<1>3. ASSUME NEW c \in Calls, CreateMachine(c) PROVE RegularNow'
  <2>1. /\ \A d \in Calls \ {c} : call'[d] = call[d]
        /\ call'[c].by = call[c].by /\ call'[c].event.type = call[c].event.type
        /\ call'[c].st = "find" /\ call[c].st = "create"
    <3> DEFINE entry == [st |-> "find", by |-> call[c].by, seen |-> Nothing,
                         event |-> [type |-> call[c].event.type, time |-> clock]]
    <3>1. call' = [call EXCEPT ![c] = entry] /\ call[c].st = "create"
      BY <1>3 DEF CreateMachine, Stamped
    <3>2. entry.by = call[c].by /\ entry.event.type = call[c].event.type /\ entry.st = "find"
      OBVIOUS
    <3> HIDE DEF entry
    <3>3. QED  BY <1>0, <3>1, <3>2 DEF CallsOK
  <2>2. UNCHANGED <<container, envVars, fault>>
    BY <1>3 DEF CreateMachine
  <2>3. CallsRegular'
    BY <1>0, <2>1, <2>2, GoOnRegular
  <2>4. PhaseRegular' /\ LoopRegular'
    BY <1>0, <2>2, SameMachine DEF envVars
  <2>5. NoHammerCall => NoHammerCall'
    BY <2>1 DEF NoHammerCall
  <2>6. ReclaimRegular'
    BY <1>0, <1>2, <2>2, <2>5 DEF ReclaimRegular, envVars
  <2>7. QED  BY <2>3, <2>4, <2>6 DEF RegularNow
<1>4. ASSUME NEW c \in Calls, FindContainer(c) PROVE RegularNow'
  <2>1. /\ \A d \in Calls \ {c} : call'[d] = call[d]
        /\ call'[c].by = call[c].by /\ call'[c].event.type = call[c].event.type
        /\ call'[c].st = "store" /\ call[c].st = "find"
    BY <1>0, <1>4 DEF FindContainer, CallsOK, Entry
  <2>2. UNCHANGED <<container, envVars, fault>>
    BY <1>4 DEF FindContainer
  <2>3. CallsRegular'
    BY <1>0, <2>1, <2>2, GoOnRegular
  <2>4. PhaseRegular' /\ LoopRegular'
    BY <1>0, <2>2, SameMachine DEF envVars
  <2>5. NoHammerCall => NoHammerCall'
    BY <2>1 DEF NoHammerCall
  <2>6. ReclaimRegular'
    BY <1>0, <1>2, <2>2, <2>5 DEF ReclaimRegular, envVars
  <2>7. QED  BY <2>3, <2>4, <2>6 DEF RegularNow
<1>5. ASSUME NEW c \in Calls, StoreContainer(c) PROVE RegularNow'
  BY <1>5, StoreRegular
<1>6. ASSUME NEW c \in Calls,
             CreateMachineConflict(c) \/ StoreContainerInvalid(c) \/ LoseCall(c) \/ RegisterContainer(c)
      PROVE  RegularNow'
  <2>1. Irregular
    BY <1>6 DEF CreateMachineConflict, StoreContainerInvalid, LoseCall, RegisterContainer
  <2>2. QED  BY <1>1, <2>1
<1>7. ASSUME NEW c \in Calls, RegisterMachine(c) PROVE RegularNow'
  <2>1. /\ \A d \in Calls : call'[d] = IF d = c THEN [Idle EXCEPT !.st = "register", !.by = "hammer"]
                                      ELSE call[d]
        /\ UNCHANGED <<container, envVars, fault>> /\ phase = "Registering"
    BY <1>0, <1>7 DEF RegisterMachine, CallsOK
  <2>2. PhaseType' = PhaseType /\ reported' = reported /\ announced' = announced /\ phase' # "Phoned Home"
    BY <2>1 DEF envVars, PhaseType
  <2>3. [Idle EXCEPT !.st = "register", !.by = "hammer"].by = "hammer"
        /\ [Idle EXCEPT !.st = "register", !.by = "hammer"].event.type = "Alive"
    BY DEF Idle, NoEvent
  <2>4. ASSUME NEW d \in Calls PROVE OneRegular(d)'
    <3>1. CASE d = c
      BY <2>1, <2>3, <3>1 DEF OneRegular
    <3>2. CASE d # c
      <4>1. OneRegular(d) /\ call'[d] = call[d]
        BY <1>0, <2>1, <3>2 DEF CallsRegular
      <4>2. QED  BY <2>2, <4>1 DEF OneRegular
    <3>3. QED  BY <3>1, <3>2
  <2>5. ASSUME NEW d \in Calls, NEW e \in Calls,
               call'[d].by = call'[e].by, call'[d].by \in {"boot", "announcement"}
        PROVE  d = e
    <3>1. d # c /\ e # c
      BY <2>1, <2>3, <2>5
    <3>2. QED  BY <1>0, <2>1, <2>5, <3>1 DEF CallsRegular
  <2>6. CallsRegular'
    BY <2>4, <2>5 DEF CallsRegular
  <2>7. PhaseRegular' /\ LoopRegular'
    BY <1>0, <2>1, SameMachine DEF envVars
  <2>8. ReclaimRegular'
    BY <2>2 DEF ReclaimRegular
  <2>9. QED  BY <2>6, <2>7, <2>8 DEF RegularNow
<1>8. ASSUME NEW c \in Calls, RegisterFind(c) PROVE RegularNow'
  <2>1. call[c].st = "register" /\ call[c].by = "hammer" /\ UNCHANGED <<container, fault>>
    BY <1>0, <1>8 DEF RegisterFind, CallsRegular, OneRegular
  <2>2. UNCHANGED envVars /\ CallsRegular' /\ (NoHammerCall => NoHammerCall')
    <3>1. CASE container # Nothing
      <4>1. Return(c)
        BY <1>8, <3>1 DEF RegisterFind
      <4>2. UNCHANGED envVars
        BY <2>1, <4>1 DEF Return, envVars
      <4>3. QED  BY <1>0, <2>1, <4>1, <4>2, ReturnRegular DEF NoHammerCall
    <3>2. CASE container = Nothing
      <4>1. /\ \A d \in Calls \ {c} : call'[d] = call[d]
            /\ call'[c].by = call[c].by /\ call'[c].event.type = call[c].event.type
            /\ UNCHANGED envVars
        BY <1>0, <1>8, <3>2 DEF RegisterFind, CallsOK, Entry, Event
      <4>2. QED  BY <1>0, <2>1, <4>1, GoOnRegular DEF NoHammerCall
    <3>3. QED  BY <3>1, <3>2
  <2>3. PhaseRegular' /\ LoopRegular'
    BY <1>0, <2>1, <2>2, SameMachine DEF envVars
  <2>4. ReclaimRegular'
    BY <1>0, <1>2, <2>1, <2>2 DEF ReclaimRegular, envVars
  <2>5. QED  BY <2>2, <2>3, <2>4 DEF RegularNow
<1>9. ASSUME NEW c \in Calls, Report(c) PROVE RegularNow'
  <2>1. /\ phase # "off" /\ reported = "no" /\ reported' = "sending"
        /\ UNCHANGED <<container, phase, announced, fault>>
        /\ Send(c, "boot", IF phase = "crashed" THEN "Crashed" ELSE phase)
    BY <1>9 DEF Report
  <2>2. PhaseType = IF phase = "crashed" THEN "Crashed" ELSE phase
    BY <2>1 DEF PhaseType
  <2>3. CallsRegular'
    BY <1>0, <2>1, <2>2, SendCalls
  <2>4. PhaseType' = PhaseType /\ Detecting' = Detecting /\ StateNow' = StateNow /\ Present' = Present
    BY <1>2, <2>1 DEF PhaseType, Detecting
  <2>5. PhaseRegular'
    BY <1>0, <2>1, <2>4 DEF PhaseRegular
  <2>6. LoopRegular'
    BY <1>0, <2>1, <2>4 DEF LoopRegular
  <2>7. NoHammerCall => NoHammerCall'
    <3>1. /\ \A d \in Calls \ {c} : call'[d] = call[d]
          /\ call'[c].by = "boot"
      BY <1>0, <2>1, Sent
    <3>2. QED  BY <3>1 DEF NoHammerCall
  <2>8. ReclaimRegular'
    BY <1>0, <2>1, <2>4, <2>7 DEF ReclaimRegular
  <2>9. QED  BY <2>3, <2>5, <2>6, <2>8 DEF RegularNow
<1>10. ASSUME NEW c \in Calls, SignOfLife(c) PROVE RegularNow'
  <2>1. /\ UNCHANGED <<container, envVars, fault>> /\ phase \in Phases
        /\ IF phase = "Phoned Home" THEN Send(c, "system", "Phoned Home") ELSE Send(c, "hammer", "Alive")
    BY <1>10 DEF SignOfLife
  <2>2. UNCHANGED <<phase, reported, announced>>
    BY <2>1 DEF envVars
  <2>3. CASE phase = "Phoned Home"
    <3>1. Send(c, "system", "Phoned Home")
      BY <2>1, <2>3
    <3>2. CallsRegular'
      BY <1>0, <2>2, <3>1, SendCalls
    <3>3. PhaseRegular' /\ LoopRegular'
      BY <1>0, <2>1, <2>2, SameMachine
    <3>4. NoHammerCall => NoHammerCall'
      <4>1. /\ \A d \in Calls \ {c} : call'[d] = call[d]
            /\ call'[c].by = "system"
        BY <1>0, <3>1, Sent
      <4>2. QED  BY <4>1 DEF NoHammerCall
    <3>5. ReclaimRegular'
      BY <1>0, <1>2, <2>1, <2>2, <3>4 DEF ReclaimRegular
    <3>6. QED  BY <3>2, <3>3, <3>5 DEF RegularNow
  <2>4. CASE phase # "Phoned Home"
    <3>1. Send(c, "hammer", "Alive")
      BY <2>1, <2>4
    <3>2. CallsRegular'
      BY <1>0, <2>2, <3>1, SendCalls
    <3>3. PhaseRegular' /\ LoopRegular'
      BY <1>0, <2>1, <2>2, SameMachine
    <3>4. ReclaimRegular'
      BY <2>2, <2>4 DEF ReclaimRegular
    <3>5. QED  BY <3>2, <3>3, <3>4 DEF RegularNow
  <2>5. QED  BY <2>3, <2>4
<1>11. ASSUME NEW c \in Calls, DeliverDelayed(c) PROVE RegularNow'
  <2>1. UNCHANGED <<container, phase, reported, announced, fault>> /\ Send(c, "buffer", "Phoned Home")
    BY <1>11 DEF DeliverDelayed
  <2>2. CallsRegular'
    BY <1>0, <2>1, SendCalls
  <2>3. PhaseRegular' /\ LoopRegular'
    BY <1>0, <2>1, SameMachine
  <2>4. NoHammerCall => NoHammerCall'
    <3>1. /\ \A d \in Calls \ {c} : call'[d] = call[d]
          /\ call'[c].by = "buffer"
      BY <1>0, <2>1, Sent
    <3>2. QED  BY <3>1 DEF NoHammerCall
  <2>5. ReclaimRegular'
    BY <1>0, <1>2, <2>1, <2>4 DEF ReclaimRegular
  <2>6. QED  BY <2>2, <2>3, <2>5 DEF RegularNow
<1>12. ASSUME NEW c \in Calls, NEW type \in Announcements, Announce(c, type) PROVE RegularNow'
  <2>1. /\ phase # "off" /\ reported = "yes" /\ announced = "no" /\ announced' = "sending"
        /\ UNCHANGED <<container, phase, reported, fault>> /\ Send(c, "announcement", type)
    BY <1>12 DEF Announce
  <2>2. type \in {"Planned Reboot", "Machine Reclaim"}
    BY EventsAssumption, Zenon DEF EventsAssumption
  <2>3. CallsRegular'
    BY <1>0, <2>1, <2>2, SendCalls
  <2>4. PhaseType' = PhaseType /\ Detecting' = Detecting /\ StateNow' = StateNow /\ Present' = Present
    BY <1>2, <2>1 DEF PhaseType, Detecting
  <2>5. PhaseRegular'
    BY <1>0, <2>1, <2>4 DEF PhaseRegular
  <2>6. LoopRegular'
    BY <1>0, <2>1, <2>4 DEF LoopRegular
  <2>7. NoHammerCall => NoHammerCall'
    <3>1. /\ \A d \in Calls \ {c} : call'[d] = call[d]
          /\ call'[c].by = "announcement"
      BY <1>0, <2>1, Sent
    <3>2. QED  BY <3>1 DEF NoHammerCall
  <2>8. ReclaimRegular'
    BY <1>0, <2>1, <2>4, <2>7 DEF ReclaimRegular
  <2>9. QED  BY <2>3, <2>5, <2>6, <2>8 DEF RegularNow
<1>13. ASSUME Proceed PROVE RegularNow'
  <2>1. /\ phase \in Phases \ {"Phoned Home"} /\ reported = "yes" /\ reported' = "no"
        /\ phase' = NextPhase[phase] /\ UNCHANGED <<container, call, announced, fault>>
        /\ phase = "Booting New Kernel" => NoHammerCall
    BY <1>13 DEF Proceed
  <2>2. announced = "no"
    <3>1. announced # "no" => Irregular
      BY <1>13, Zenon DEF Proceed
    <3>2. QED  BY <1>1, <3>1
  <2>3. s = phase
    <3>1. PhaseType = phase
      BY <2>1 DEF PhaseType, Phases
    <3>2. QED  BY <1>0, <2>1, <2>2, <3>1 DEF PhaseRegular
  <2>4. StateNow' = s /\ Present' = Present
    BY <1>2, <2>1
  <2>5. phase \in DOMAIN NextPhase /\ phase' \in Phases
    BY <2>1 DEF NextPhase, Phases
  <2>6. CallsRegular'
    BY <1>0, <2>1, <2>2, NobodyWaits
  <2>7. PhaseRegular'
    BY <2>1, <2>2, <2>3, <2>4, <2>5 DEF PhaseRegular, Phases
  <2>8. ~Detecting'
    <3>1. phase' # "PXE Booting" /\ phase' # "crashed" /\ (phase' = "Preparing" => phase = "PXE Booting")
      BY <2>1 DEF NextPhase, Phases
    <3>2. "PXE Booting" \in Sources["Preparing"]
      BY DEF Sources, Types, Phases
    <3>3. QED  BY <2>3, <2>4, <3>1, <3>2 DEF Detecting
  <2>9. LoopRegular'
    BY <1>0, <2>1, <2>4, <2>8 DEF LoopRegular, Detecting
  <2>10. ReclaimRegular'
    <3>1. phase' = "Phoned Home" => phase = "Booting New Kernel"
      BY <2>1 DEF NextPhase, Phases
    <3>2. NoHammerCall' <=> NoHammerCall
      BY <2>1 DEF NoHammerCall
    <3>3. phase' = "Phoned Home" => NoHammerCall' /\ StateNow' # "Machine Reclaim"
      BY <2>1, <2>3, <2>4, <3>1, <3>2
    <3>4. QED  BY <3>3 DEF ReclaimRegular
  <2>11. QED  BY <2>6, <2>7, <2>9, <2>10 DEF RegularNow
<1>14. ASSUME Restart PROVE RegularNow'
  <2>1. /\ reported = "yes" /\ announced # "sending" /\ reported' = "no" /\ announced' = "no"
        /\ phase' \in {"PXE Booting", "Preparing"} /\ UNCHANGED <<container, call>>
        /\ fault' = IF announced = "yes" \/ phase \in {"off", "PXE Booting"} THEN fault ELSE "yes"
    BY <1>14 DEF Restart
  <2>2. StateNow' = s /\ Present' = Present
    BY <1>2, <2>1
  <2>3. CallsRegular'
    BY <1>0, <2>1, NobodyWaits
  <2>4. PhaseRegular'
    BY <2>1 DEF PhaseRegular
  <2>5. /\ Sources["PXE Booting"] = {"Planned Reboot", "Machine Reclaim", "Crashed", "Initial"}
        /\ Sources["Preparing"] = {"PXE Booting", "Planned Reboot", "Machine Reclaim", "Crashed", "Initial"}
        /\ SelfSources["PXE Booting"] = {"PXE Booting"} /\ SelfSources["Preparing"] = {}
    BY DEF Sources, SelfSources, Types, Phases
  <2>6. /\ fault = "yes" => Present.crashLoop = "yes"
        /\ Present.crashLoop = "yes" => fault = "yes"
        /\ s = "Crashed" => Present.crashLoop = "yes"
    BY <1>0, <2>1 DEF LoopRegular, Detecting
  <2>7. /\ Detecting' => fault' = "yes"
        /\ fault' = "yes" => Present.crashLoop = "yes" \/ Detecting'
    <3>1. Detecting' <=> s \notin Sources[phase'] \cup SelfSources[phase']
      BY <2>1, <2>2 DEF Detecting
    <3>2. CASE announced = "yes"
      <4>1. s \in {"Planned Reboot", "Machine Reclaim"} /\ fault' = fault
        BY <1>0, <2>1, <3>2 DEF PhaseRegular
      <4>2. QED  BY <2>1, <2>5, <2>6, <3>1, <4>1
    <3>3. CASE announced # "yes"
      <4>1. s = PhaseType
        BY <1>0, <2>1, <3>3 DEF PhaseRegular
      <4>2. CASE phase \in {"off", "PXE Booting"}
        <5>1. s \in {"Initial", "PXE Booting"} /\ fault' = fault
          BY <2>1, <4>1, <4>2 DEF PhaseType
        <5>2. QED  BY <2>1, <2>5, <2>6, <3>1, <5>1
      <4>3. CASE phase = "crashed"
        <5>1. s = "Crashed" /\ fault' = "yes"
          BY <2>1, <3>3, <4>1, <4>3 DEF PhaseType
        <5>2. QED  BY <2>6, <5>1
      <4>4. CASE phase \notin {"off", "PXE Booting", "crashed"}
        <5>1. s = phase /\ fault' = "yes" /\ phase \in Phases
          BY <1>0, <2>1, <3>3, <4>1, <4>4 DEF PhaseType, RestOK
        <5>2. s \notin {"PXE Booting", "Planned Reboot", "Machine Reclaim", "Crashed", "Initial"}
          BY <4>4, <5>1 DEF Phases
        <5>3. QED  BY <2>1, <2>5, <3>1, <5>1, <5>2
      <4>5. QED  BY <4>2, <4>3, <4>4
    <3>4. QED  BY <3>2, <3>3
  <2>8. fault = "yes" => fault' = "yes"
    BY <2>1
  <2>9. LoopRegular'
    BY <1>0, <2>2, <2>6, <2>7, <2>8 DEF LoopRegular
  <2>10. ReclaimRegular'
    BY <2>1 DEF ReclaimRegular
  <2>11. QED  BY <2>3, <2>4, <2>9, <2>10 DEF RegularNow
<1>15. ASSUME Crash PROVE RegularNow'
  <2>1. /\ phase \in Phases \ {"PXE Booting", "Phoned Home"} /\ reported = "yes" /\ announced = "no"
        /\ phase' = "crashed" /\ reported' = "no" /\ fault' = "yes"
        /\ UNCHANGED <<container, call, announced>>
    BY <1>15 DEF Crash
  <2>2. StateNow' = s /\ Present' = Present
    BY <1>2, <2>1
  <2>3. s = phase
    <3>1. PhaseType = phase
      BY <2>1 DEF PhaseType, Phases
    <3>2. QED  BY <1>0, <2>1, <3>1 DEF PhaseRegular
  <2>4. CallsRegular'
    BY <1>0, <2>1, NobodyWaits
  <2>5. PhaseRegular'
    BY <2>1, <2>2, <2>3 DEF PhaseRegular
  <2>6. Detecting'
    BY <2>1 DEF Detecting
  <2>7. LoopRegular'
    BY <1>0, <2>1, <2>2, <2>6 DEF LoopRegular
  <2>8. ReclaimRegular'
    BY <2>1 DEF ReclaimRegular
  <2>9. QED  BY <2>4, <2>5, <2>7, <2>8 DEF RegularNow
<1>16. ASSUME Tick \/ UNCHANGED vars PROVE RegularNow'
  <2>1. UNCHANGED <<container, call, phase, reported, announced, fault>>
    BY <1>16 DEF Tick, vars, envVars
  <2>2. PhaseType' = PhaseType
    BY <2>1 DEF PhaseType
  <2>3. \A d \in Calls : OneRegular(d)'
    BY <1>0, <2>1, <2>2 DEF CallsRegular, OneRegular
  <2>4. CallsRegular'
    BY <1>0, <2>1, <2>3 DEF CallsRegular
  <2>5. PhaseRegular' /\ LoopRegular'
    BY <1>0, <2>1, SameMachine
  <2>6. NoHammerCall' <=> NoHammerCall
    BY <2>1 DEF NoHammerCall
  <2>7. ReclaimRegular'
    BY <1>0, <1>2, <2>1, <2>6 DEF ReclaimRegular
  <2>8. QED  BY <2>4, <2>5, <2>7 DEF RegularNow
<1>17. QED
  BY <1>3, <1>4, <1>5, <1>6, <1>7, <1>8, <1>9, <1>10, <1>11, <1>12, <1>13, <1>14, <1>15, <1>16 DEF Next

LEMMA RegularInit == Init => RegularNow
<1> SUFFICES ASSUME Init PROVE RegularNow
  OBVIOUS
<1>1. Present = EmptyContainer /\ StateNow = "Initial" /\ PhaseType = "Initial"
  BY DEF Init, Present, StateNow, StateOf, EmptyContainer, PhaseType
<1>2. CallsRegular
  BY DEF Init, CallsRegular, OneRegular, Idle
<1>3. PhaseRegular
  BY <1>1 DEF Init, PhaseRegular
<1>4. LoopRegular
  BY <1>1 DEF Init, LoopRegular, Detecting, EmptyContainer
<1>5. ReclaimRegular
  BY DEF Init, ReclaimRegular
<1>6. QED  BY <1>2, <1>3, <1>4, <1>5 DEF RegularNow

LEMMA RegularInvariant == Spec => [](TypeOK /\ Regular)
<1>1. Init => Regular
  BY RegularInit DEF Regular
<1>2. TypeOK /\ Regular /\ [Next]_vars => Regular'
  <2> SUFFICES ASSUME TypeOK, Regular, [Next]_vars, irregular' = 0 PROVE RegularNow'
    BY DEF Regular
  <2>1. irregular = 0
    BY IrregularStays
  <2>2. QED  BY <2>1, RegularStep DEF Regular
<1>3. QED  BY <1>1, <1>2, TypeInit, TypeStep, PTL DEF Spec

(* A machine that boots as it should is never reported to be in a crash      *)
(* loop, whatever signs of life and buffered phone home events come between  *)
(* its events and however the calls interleave, as long as none is lost or   *)
(* stored out of order.                                                      *)
THEOREM NoFalseAlarm == Spec => []NoFalseCrashLoop
<1>1. Regular => NoFalseCrashLoop
  BY DEF Regular, RegularNow, LoopRegular, NoFalseCrashLoop, Present
<1>2. QED  BY <1>1, RegularInvariant, PTL

(* A machine that crashed or restarted without announcement is reported to   *)
(* be in a crash loop from its first event on.                               *)
THEOREM CrashLoopsSeen == Spec => []CrashLoopDetected
<1>1. ASSUME Regular, irregular = 0, fault = "yes", reported = "yes" PROVE container.crashLoop = "yes"
  <2>1. Present.crashLoop = "yes"
    BY <1>1 DEF Regular, RegularNow, LoopRegular, Detecting
  <2>2. EmptyContainer.crashLoop = "no"
    BY DEF EmptyContainer
  <2>3. QED  BY <2>1, <2>2 DEF Present
<1>2. Regular => CrashLoopDetected
  BY <1>1 DEF CrashLoopDetected
<1>3. QED  BY <1>2, RegularInvariant, PTL

(* A machine that goes on phoning home after its reclaim is reported as soon *)
(* as one of these events is late enough, whatever came before it.           *)
THEOREM FailedReclaimsSeen == Spec => FailedReclaimDetected
<1> DEFINE Seen == \A c \in Calls :
          /\ StoreContainer(c) /\ call[c].by = "system" /\ phase = "Phoned Home"
          /\ irregular' = 0 /\ StateOf(Found(c)) = "Machine Reclaim"
          /\ call[c].event.time > Head(Found(c).events).time + Threshold
          => container'.failedReclaim = "yes"
<1>1. TypeOK /\ Regular /\ [Next]_vars => [Seen]_vars
  <2> SUFFICES ASSUME TypeOK, Regular, [Next]_vars, NEW c \in Calls,
                      StoreContainer(c), call[c].by = "system", phase = "Phoned Home",
                      irregular' = 0, StateOf(Found(c)) = "Machine Reclaim",
                      call[c].event.time > Head(Found(c).events).time + Threshold
               PROVE  container'.failedReclaim = "yes"
    OBVIOUS
  <2>1. irregular = 0
    BY IrregularStays
  <2>2. CallsRegular /\ LoopRegular /\ ReclaimRegular
    BY <2>1 DEF Regular, RegularNow
  <2>3. /\ call[c].event \in Event /\ Present \in Container /\ Found(c) = Present
        /\ Handled(c) = HandleProvisioningEvent(Present, call[c].event)
        /\ \/ Handled(c).events = Present.events
           \/ /\ StateOf(Present) \in {"PXE Booting", "Preparing", "Registering", "Waiting"}
              /\ call[c].event.time < Present.last + Threshold
        /\ container'.failedReclaim = Handled(c).failedReclaim
    BY <2>1, StoreInOrder
  <2>4. StateOf(Present) = "Machine Reclaim" /\ StateNow = "Machine Reclaim"
    BY <2>3 DEF StateNow
  <2>5. Present.events # <<>>
    BY <2>4 DEF StateOf
  <2>6. Present.last # Nothing
    BY <2>2, <2>5 DEF LoopRegular
  <2>7. call[c].event.type = "Phoned Home"
    BY <2>2 DEF CallsRegular, OneRegular
  <2>8. Handled(c) = ReclaimPhonedHome(Present, call[c].event)
    BY <2>3, <2>4, <2>6, <2>7, RepeatedPhoneHome
  <2>9. Present.failedReclaim = "yes" \/ Present.last = Head(Present.events).time
    BY <2>2, <2>4 DEF ReclaimRegular
  <2>10. Handled(c).failedReclaim = "yes"
    BY <2>3, <2>6, <2>8, <2>9, ReclaimHandled
  <2>11. QED  BY <2>3, <2>10
<1>2. QED  BY <1>1, RegularInvariant, PTL DEF Spec, FailedReclaimDetected

=============================================================================
