------------------------- MODULE ProvisioningEvents -------------------------
(* The provisioning events of one machine: pkg/fsm with its states, the      *)
(* event container of pkg/db/metal/provisioning-event.go, and SendEvent and  *)
(* Register of pkg/repository/machine.go, which read the container, compute  *)
(* the next one and write it back with Upsert. The machine, which sends one  *)
(* event per phase of its boot, may be restarted with and without            *)
(* announcement and may leave a phone home event in a buffer that arrives    *)
(* much later. Everything is about a single machine: containers of different *)
(* machines have nothing in common.                                          *)
EXTENDS Naturals, Sequences

CONSTANTS
    Calls,       \* concurrent calls of SendEvent and Register
    MaxEvents,   \* how many events a container keeps
    Threshold,   \* five minutes, in ticks
    MaxClock,    \* bound on the clock
    MaxIrregular,   \* bound on the calls that begin after an irregularity
    Announcements,  \* how restarts are announced: Planned Reboot, Machine Reclaim
    Skipped,     \* phases that this machine's boots skip: PXE Booting, Waiting
    Nothing      \* no container, no time

Phases == {"PXE Booting", "Preparing", "Registering", "Waiting", "Installing",
           "Booting New Kernel", "Phoned Home"}
Types == Phases \cup {"Planned Reboot", "Machine Reclaim", "Alive", "Crashed"}
States == Types \cup {"Initial"}
Event == [type : Types, time : 0..MaxClock]
Flag == {"no", "yes"}

Container == [events : Seq(Event), last : 0..MaxClock \cup {Nothing},
              crashLoop : Flag, failedReclaim : Flag]

ASSUME EventsAssumption ==
    /\ MaxEvents \in Nat \ {0}
    /\ Threshold \in Nat /\ MaxClock \in Nat /\ MaxIrregular \in Nat
    /\ Announcements \subseteq {"Planned Reboot", "Machine Reclaim"}
    /\ Skipped \subseteq {"PXE Booting", "Waiting"}
    /\ Nothing \notin Container /\ Nothing \notin Nat

VARIABLES
    row,        \* "present" once the machine has a row
    container,  \* the stored event container, or Nothing
    call,       \* call[c]: a call of SendEvent or Register between its database accesses
    clock,
    phase,      \* the phase of its boot the machine is in, "off" or "crashed"
    reported,   \* has the call with the event of this phase ended?
    announced,  \* has the next restart been announced (and the call ended)?
    delayed,    \* "yes": a phone home event of an earlier boot is still buffered
    fault,      \* "yes": an unannounced restart or a crash since the last good boot
    irregular   \* 0, or counts the calls since an event got lost or arrived out of order

envVars == <<phase, reported, announced, delayed>>
vars == <<row, container, call, clock, envVars, fault, irregular>>

----------------------------------------------------------------------------
(* The state machine (Events, looplab/fsm)                                   *)

(* The transitions of an event to a state of its own.                        *)
Sources == [e \in Types |->
    CASE e = "PXE Booting"        -> {"Planned Reboot", "Machine Reclaim", "Crashed", "Initial"}
      [] e = "Preparing"          -> {"PXE Booting", "Planned Reboot", "Machine Reclaim", "Crashed", "Initial"}
      [] e = "Registering"        -> {"Preparing", "Initial"}
      [] e = "Waiting"            -> {"Registering", "Initial"}
      [] e = "Installing"         -> {"Registering", "Waiting", "Initial"}
      [] e = "Booting New Kernel" -> {"Installing", "Initial"}
      [] e = "Phoned Home"        -> {"Booting New Kernel", "Machine Reclaim", "Initial"}
      [] e = "Planned Reboot"     -> States
      [] e = "Machine Reclaim"    -> States
      [] OTHER                    -> (Phases \ {"Phoned Home"}) \cup {"Initial"}]

(* Mutant: a PXE boot that is repeated is unexpected.                        *)
SelfSourcesOncePxe == [e \in Types |->
    CASE e = "Phoned Home"     -> {"Planned Reboot", "Phoned Home", "PXE Booting", "Preparing",
                                   "Registering", "Waiting"}
      [] e \in {"Planned Reboot", "Machine Reclaim"} -> {e}
      [] OTHER                 -> {}]

(* The transitions that leave the machine in its state (self_transition).    *)
SelfSources == [e \in Types |->
    CASE e = "PXE Booting"     -> {"PXE Booting"}
      [] e = "Phoned Home"     -> {"Planned Reboot", "Phoned Home", "PXE Booting", "Preparing",
                                   "Registering", "Waiting"}
      [] e = "Planned Reboot"  -> {"Planned Reboot"}
      [] e = "Machine Reclaim" -> {"Machine Reclaim"}
      [] OTHER                 -> {}]

(* initialStateFromEventContainer: named like the last event, because every  *)
(* event has one destination.                                                *)
StateOf(ec) == IF ec.events = <<>> THEN "Initial" ELSE Head(ec.events).type

UpdateTime(ec, ev) == [ec EXCEPT !.last = ev.time]
AppendEvent(ec, ev) == [ec EXCEPT !.last = ev.time, !.events = <<ev>> \o @]

(* Mutant: a delayed phone home event is never recognized.                   *)
SwallowBufferedNever(ec, ev) == FALSE

(* swallowBufferedPhonedHome                                                 *)
SwallowBuffered(ec, ev) ==
    /\ ev.type = "Phoned Home"
    /\ ec.last # Nothing
    /\ ev.time < ec.last + Threshold

(* Mutant: a swallowed phone home event counts as sign of life.              *)
ReclaimPhonedHomeRefreshing(ec, ev) ==
    IF ec.last # Nothing /\ ev.time > ec.last + Threshold
    THEN [UpdateTime(ec, ev) EXCEPT !.failedReclaim = "yes"]
    ELSE UpdateTime(ec, ev)

(* A phone home event after a reclaim: the machine should have been reset.   *)
ReclaimPhonedHome(ec, ev) ==
    IF ec.last # Nothing /\ ev.time > ec.last + Threshold
    THEN [UpdateTime(ec, ev) EXCEPT !.failedReclaim = "yes"]
    ELSE ec

(* The states, named like their types. In the first group a phone home event *)
(* may be from an earlier boot; repeated PXE boots are not stored.           *)
PXEBootingState(source, ec, ev) ==
    IF SwallowBuffered(ec, ev) THEN ec
    ELSE [IF source = "PXE Booting" THEN UpdateTime(ec, ev) ELSE AppendEvent(ec, ev)
             EXCEPT !.failedReclaim = "no"]
PreparingState(ec, ev) ==
    IF SwallowBuffered(ec, ev) THEN ec
    ELSE [AppendEvent(ec, ev) EXCEPT !.failedReclaim = "no"]
RegisteringState(ec, ev) == IF SwallowBuffered(ec, ev) THEN ec ELSE AppendEvent(ec, ev)
WaitingState(ec, ev) == IF SwallowBuffered(ec, ev) THEN ec ELSE AppendEvent(ec, ev)
InstallingState(ec, ev) == AppendEvent(ec, ev)
BootingNewKernelState(ec, ev) == AppendEvent(ec, ev)
PhonedHomeState(source, ec, ev) ==
    CASE source = "Phoned Home"     -> UpdateTime(ec, ev)
      [] source = "Machine Reclaim" -> ReclaimPhonedHome(ec, ev)
      [] OTHER -> [AppendEvent(ec, ev) EXCEPT !.crashLoop = "no"]
PlannedRebootState(ec, ev) == [AppendEvent(ec, ev) EXCEPT !.crashLoop = "no"]
MachineReclaimState(ec, ev) == [AppendEvent(ec, ev) EXCEPT !.crashLoop = "no"]
AliveState(ec, ev) == UpdateTime(ec, ev)
CrashState(ec, ev) == [AppendEvent(ec, ev) EXCEPT !.crashLoop = "yes"]

(* OnTransition of the state that is entered, or, on a self transition, of   *)
(* the state the machine stays in.                                           *)
OnTransition(state, source, ec, ev) ==
    CASE state = "PXE Booting"        -> PXEBootingState(source, ec, ev)
      [] state = "Preparing"          -> PreparingState(ec, ev)
      [] state = "Registering"        -> RegisteringState(ec, ev)
      [] state = "Waiting"            -> WaitingState(ec, ev)
      [] state = "Installing"         -> InstallingState(ec, ev)
      [] state = "Booting New Kernel" -> BootingNewKernelState(ec, ev)
      [] state = "Phoned Home"        -> PhonedHomeState(source, ec, ev)
      [] state = "Planned Reboot"     -> PlannedRebootState(ec, ev)
      [] state = "Machine Reclaim"    -> MachineReclaimState(ec, ev)
      [] state = "Alive"              -> AliveState(ec, ev)
      [] state = "Crashed"            -> CrashState(ec, ev)

(* Mutant: an unexpected event that starts a boot does not count as a crash. *)
UnexpectedNoCrashLoop(ec, ev) ==
    IF ev.type = "Alive" THEN UpdateTime(ec, ev)
    ELSE AppendEvent(ec, ev)

(* Mutant: an unexpected alive event is stored like the others.              *)
UnexpectedStoresAlive(ec, ev) ==
    [AppendEvent(ec, ev) EXCEPT
        !.crashLoop = IF ev.type \in {"PXE Booting", "Preparing"} THEN "yes" ELSE @]

(* HandleProvisioningEvent, an event that the state does not expect. (It is  *)
(* remembered as LastErrorEvent too, which the model leaves out.)            *)
Unexpected(ec, ev) ==
    IF ev.type = "Alive" THEN UpdateTime(ec, ev)
    ELSE [AppendEvent(ec, ev) EXCEPT
             !.crashLoop = IF ev.type \in {"PXE Booting", "Preparing"} THEN "yes" ELSE @]

(* HandleProvisioningEvent                                                   *)
HandleProvisioningEvent(ec, ev) ==
    LET s == StateOf(ec) IN
    CASE s \in SelfSources[ev.type] -> OnTransition(s, s, ec, ev)
      [] s \in Sources[ev.type] \ SelfSources[ev.type] -> OnTransition(ev.type, s, ec, ev)
      [] OTHER -> Unexpected(ec, ev)

(* Mutant: a container is written without having been validated.             *)
ValidateOff(ec) == TRUE

(* Validate of the container                                                 *)
Validate(ec) ==
    ec.events # <<>> =>
        /\ ec.last # Nothing /\ Head(ec.events).time <= ec.last
        /\ \A i \in 1..Len(ec.events) - 1 : ec.events[i + 1].time <= ec.events[i].time

TrimEvents(ec) ==
    IF Len(ec.events) > MaxEvents THEN [ec EXCEPT !.events = SubSeq(@, 1, MaxEvents)] ELSE ec

----------------------------------------------------------------------------
(* SendEvent                                                                 *)

NoEvent == [type |-> "Alive", time |-> 0]
Idle == [st |-> "idle", by |-> "nobody", event |-> NoEvent, seen |-> Nothing]
EmptyContainer == [events |-> <<>>, last |-> Nothing, crashLoop |-> "no",
                   failedReclaim |-> "no"]

(* The call that delivers an event, once the machine has a row: the time is  *)
(* taken before the container is read.                                       *)
Stamped(c, by, type) ==
    call' = [call EXCEPT ![c] = [st |-> "find", by |-> by, seen |-> Nothing,
                                 event |-> [type |-> type, time |-> clock]]]

(* SendEvent is called for one of: the phase the machine is in ("boot"), the *)
(* announcement of a restart, a sign of life, or a buffered phone home. It   *)
(* begins by looking for the machine.                                        *)
Send(c, by, type) ==
    /\ call[c] = Idle
    /\ IF row = "present" THEN Stamped(c, by, type)
       ELSE call' = [call EXCEPT ![c] = [st |-> "create", by |-> by, seen |-> Nothing,
                                         event |-> [NoEvent EXCEPT !.type = type]]]
    /\ irregular' = IF irregular = 0 THEN 0 ELSE irregular + 1

Irregular == irregular' = IF irregular = 0 THEN 1 ELSE irregular

(* A call ends; its sender goes on, whatever the result.                     *)
Return(c) ==
    /\ call' = [call EXCEPT ![c] = Idle]
    /\ reported' = IF call[c].by = "boot" THEN "yes" ELSE reported
    /\ announced' = IF call[c].by = "announcement" THEN "yes" ELSE announced
    /\ UNCHANGED <<phase, delayed>>

(* "an event can actually create an empty machine"                           *)
CreateMachine(c) ==
    /\ call[c].st = "create"
    /\ row = "absent"
    /\ row' = "present"
    /\ Stamped(c, call[c].by, call[c].event.type)
    /\ UNCHANGED <<container, clock, envVars, fault, irregular>>

(* Another call has created the machine meanwhile: a conflict error.         *)
CreateMachineConflict(c) ==
    /\ call[c].st = "create"
    /\ row = "present"
    /\ Return(c)
    /\ Irregular
    /\ UNCHANGED <<row, container, clock, fault>>

FindContainer(c) ==
    /\ call[c].st = "find"
    /\ call' = [call EXCEPT ![c].st = "store", ![c].seen = container]
    /\ UNCHANGED <<row, container, clock, envVars, fault, irregular>>

(* Without a container in the database the event is the first of a new one.  *)
Found(c) == IF call[c].seen = Nothing THEN EmptyContainer ELSE call[c].seen

Handled(c) == HandleProvisioningEvent(Found(c), call[c].event)

(* What the five minutes are for: while a machine boots, a phone home event  *)
(* that comes so soon after the last event is from an earlier boot.          *)
ExpectedToBeSwallowed(c) ==
    /\ StateOf(Found(c)) \in {"PXE Booting", "Preparing", "Registering", "Waiting"}
    /\ call[c].event.time < Found(c).last + Threshold

(* The event is out of order if the container it is stored in replaces one   *)
(* that it was not computed from, or if it is a buffered or repeated phone   *)
(* home event that enters the history when nobody could know where it is     *)
(* from: much later, after an announcement or during an installation.        *)
OutOfOrder(c) ==
    \/ container # call[c].seen
    \/ /\ call[c].by \in {"buffer", "system"}
       /\ Handled(c).events # Found(c).events /\ ~ExpectedToBeSwallowed(c)

(* The container is validated, trimmed and written over whatever is there.   *)
StoreContainer(c) ==
    /\ call[c].st = "store"
    /\ Validate(Handled(c))
    /\ container' = TrimEvents(Handled(c))
    /\ Return(c)
    /\ IF OutOfOrder(c) THEN Irregular ELSE UNCHANGED irregular
    /\ fault' = CASE call[c].by = "announcement" -> "no"
                  [] call[c].by = "boot" /\ call[c].event.type = "Phoned Home" -> "no"
                  [] OTHER -> fault
    /\ UNCHANGED <<row, clock>>

(* The next container is not valid, which is an error.                       *)
StoreContainerInvalid(c) ==
    /\ call[c].st = "store"
    /\ ~Validate(Handled(c))
    /\ Return(c)
    /\ Irregular
    /\ UNCHANGED <<row, container, clock, fault>>

(* A call is lost: it does not arrive, its context ends or the server dies.  *)
LoseCall(c) ==
    /\ call[c] # Idle
    /\ Return(c)
    /\ Irregular
    /\ UNCHANGED <<row, container, clock, fault>>

----------------------------------------------------------------------------
(* Register                                                                  *)

(* The machine registers; a machine without a row gets one.                  *)
RegisterMachine(c) ==
    /\ call[c] = Idle
    /\ phase = "Registering"
    /\ row' = "present"
    /\ call' = [call EXCEPT ![c] = [Idle EXCEPT !.st = "register", !.by = "hammer"]]
    /\ UNCHANGED <<container, clock, envVars, fault, irregular>>

(* A container that exists is left alone.                                    *)
RegisterFind(c) ==
    /\ call[c].st = "register"
    /\ IF container # Nothing THEN Return(c)
       ELSE call' = [call EXCEPT ![c].st = "registerec", ![c].event.time = clock] /\ UNCHANGED envVars
    /\ UNCHANGED <<row, container, clock, fault, irregular>>

(* Otherwise one is created, with an alive event and without a time.         *)
RegisterContainer(c) ==
    /\ call[c].st = "registerec"
    /\ container' = IF container # Nothing THEN container
                    ELSE [EmptyContainer EXCEPT !.events = <<call[c].event>>]
    /\ Return(c)
    /\ Irregular
    /\ UNCHANGED <<row, clock, fault>>

----------------------------------------------------------------------------
(* The machine                                                               *)

NextPhase == [p \in Phases \ {"Phoned Home"} |->
    CASE p = "PXE Booting" -> "Preparing"       [] p = "Preparing"  -> "Registering"
      [] p = "Registering" -> IF "Waiting" \in Skipped THEN "Installing" ELSE "Waiting"
      [] p = "Waiting"     -> "Installing"
      [] p = "Installing"  -> "Booting New Kernel" [] OTHER -> "Phoned Home"]

NoHammerCall == \A c \in Calls : call[c].by # "hammer"

(* The machine reaches the next phase. If its restart had been announced,    *)
(* the events that follow are not those of the announced boot.               *)
Proceed ==
    /\ phase \in Phases \ {"Phoned Home"} /\ reported = "yes"
    /\ phase = "Booting New Kernel" => NoHammerCall
    /\ phase' = NextPhase[phase]
    /\ reported' = "no"
    /\ IF announced = "no" THEN UNCHANGED irregular ELSE Irregular
    /\ UNCHANGED <<row, container, call, clock, announced, delayed, fault>>

(* ... and reports it; without a new phase it reports a crash.               *)
Report(c) ==
    /\ phase # "off" /\ reported = "no"
    /\ Send(c, "boot", IF phase = "crashed" THEN "Crashed" ELSE phase)
    /\ reported' = "sending"
    /\ UNCHANGED <<row, container, clock, phase, announced, delayed, fault>>

(* The machine starts to boot, with a PXE boot event or (machines that are   *)
(* incapable of sending those) with the preparing event. Without an          *)
(* announcement this is a fault, which nobody can see in a machine that was  *)
(* PXE booting anyhow.                                                       *)
Restart ==
    /\ reported = "yes" /\ announced # "sending" /\ NoHammerCall
    /\ phase' \in {"PXE Booting", "Preparing"} \ Skipped
    /\ reported' = "no" /\ announced' = "no"
    /\ fault' = IF announced = "yes" \/ phase \in {"off", "PXE Booting"} THEN fault ELSE "yes"
    /\ delayed' \in {delayed} \cup (IF phase = "Phoned Home" THEN {"yes"} ELSE {})
    /\ UNCHANGED <<row, container, call, clock, irregular>>

(* The installation fails.                                                   *)
Crash ==
    /\ phase \in Phases \ {"PXE Booting", "Phoned Home"} /\ reported = "yes"
    /\ announced = "no"
    /\ phase' = "crashed" /\ reported' = "no"
    /\ fault' = "yes"
    /\ UNCHANGED <<row, container, call, clock, announced, delayed, irregular>>

(* A restart is announced: by Decommission, or by a planned reboot.          *)
Announce(c, type) ==
    /\ phase # "off" /\ reported = "yes" /\ announced = "no"
    /\ Send(c, "announcement", type)
    /\ announced' = "sending"
    /\ UNCHANGED <<row, container, clock, phase, reported, delayed, fault>>

(* The booting machine shows that it is alive, the installed one repeats     *)
(* its phone home.                                                           *)
SignOfLife(c) ==
    /\ phase \in Phases
    /\ IF phase = "Phoned Home" THEN Send(c, "system", phase) ELSE Send(c, "hammer", "Alive")
    /\ UNCHANGED <<row, container, clock, envVars, fault>>

(* A phone home event of an earlier boot arrives.                            *)
DeliverDelayed(c) ==
    /\ delayed = "yes"
    /\ delayed' = "no"
    /\ Send(c, "buffer", "Phoned Home")
    /\ UNCHANGED <<row, container, clock, phase, reported, announced, fault>>

Tick ==
    /\ clock < MaxClock
    /\ clock' = clock + 1
    /\ UNCHANGED <<row, container, call, envVars, fault, irregular>>

Init ==
    /\ row = "absent" /\ container = Nothing /\ call = [c \in Calls |-> Idle]
    /\ clock = 0
    /\ phase = "off" /\ reported = "yes" /\ announced = "no" /\ delayed = "no"
    /\ fault = "no" /\ irregular = 0

(* The history ends some calls after an irregularity.                        *)
Next ==
    /\ irregular <= MaxIrregular
    /\ \/ \E c \in Calls :
            \/ CreateMachine(c) \/ CreateMachineConflict(c)
            \/ FindContainer(c) \/ StoreContainer(c) \/ StoreContainerInvalid(c) \/ LoseCall(c)
            \/ RegisterMachine(c) \/ RegisterFind(c) \/ RegisterContainer(c)
            \/ Report(c) \/ SignOfLife(c) \/ DeliverDelayed(c)
            \/ \E type \in Announcements : Announce(c, type)
       \/ Proceed \/ Restart \/ Crash \/ Tick

Spec == Init /\ [][Next]_vars

----------------------------------------------------------------------------
(* Properties                                                                *)

TypeOK ==
    /\ row \in {"absent", "present"}
    /\ container \in Container \cup {Nothing}
    /\ container # Nothing => Len(container.events) <= MaxEvents
    /\ call \in [Calls -> [st : {"idle", "create", "find", "store", "register", "registerec"},
                           by : {"nobody", "boot", "announcement", "hammer", "system", "buffer"},
                           event : Event, seen : Container \cup {Nothing}]]
    /\ clock \in 0..MaxClock
    /\ phase \in Phases \cup {"off", "crashed"}
    /\ reported \in {"no", "sending", "yes"} /\ announced \in {"no", "sending", "yes"}
    /\ delayed \in Flag /\ fault \in Flag /\ irregular \in 0..MaxIrregular + 1

(* Whatever order concurrent calls take their times, read and write in, and  *)
(* whoever overwrites whom: the stored events are in the order of their      *)
(* times, newest first, and the last event time is not older than them. (A   *)
(* container that Register made has no last event time.)                     *)
Chronological ==
    container # Nothing =>
        LET e == container.events IN
        /\ \A i, j \in 1..Len(e) : i < j => e[j].time <= e[i].time
        /\ container.last # Nothing => \A i \in 1..Len(e) : e[i].time <= container.last

(* HandleProvisioningEvent: "under no circumstances we want to persists      *)
(* alive in the events container". Register does, as the first event; no     *)
(* other alive event is ever stored.                                         *)
AliveOnlyAsFirst ==
    container # Nothing =>
        \A i \in 1..Len(container.events) - 1 : container.events[i].type # "Alive"

(* A machine that boots as it should, with announced restarts, repeated PXE  *)
(* boots, signs of life and buffered phone home events, is not reported to   *)
(* be in a crash loop.                                                       *)
NoFalseCrashLoop ==
    irregular = 0 /\ container # Nothing =>
        (container.crashLoop = "yes" => fault = "yes")

(* A machine that restarted without announcement, or crashed, is in a crash  *)
(* loop from its first event on until it boots the new kernel, whatever      *)
(* buffered phone home events and signs of life come in between.             *)
CrashLoopDetected ==
    irregular = 0 /\ fault = "yes" /\ reported = "yes"
    /\ phase \in Phases \ {"Booting New Kernel", "Phoned Home"} =>
        container.crashLoop = "yes"

(* A machine that goes on phoning home after it was reclaimed is reported as *)
(* soon as one of its phone home events is late enough, although all its     *)
(* earlier ones were swallowed.                                              *)
FailedReclaimDetected ==
    [][\A c \in Calls :
          /\ StoreContainer(c) /\ call[c].by = "system" /\ phase = "Phoned Home"
          /\ irregular' = 0 /\ StateOf(Found(c)) = "Machine Reclaim"
          /\ call[c].event.time > Head(Found(c).events).time + Threshold
          => container'.failedReclaim = "yes"]_vars
=============================================================================
