-------------------------- MODULE Controller_proofs --------------------------
(***************************************************************************)
(* Theorems about Controller, for any identities of the two threads and    *)
(* for behaviours of any length.  All of them follow from one inductive    *)
(* invariant, whose conjuncts say where each thread can be while the state *)
(* machine is in a given state.                                            *)
(***************************************************************************)
EXTENDS Controller, TLAPS

States == {"Reset", "Running", "Paused", "Stopped"}

UserPlaces == {"idle", "spawning", "starting", "started", "entering", "pausing",
               "stopping", "stopEnter", "stopped", "ending",
               "eos", "eosEnter", "eosCall"}
SimPlaces  == {"none", "born", "called", "simulated", "prepared", "initialised",
               "checked", "kernel", "pauseLock", "pauseEnter", "pauseCall",
               "asleep", "awake", "eos", "eosEnter", "eosCall", "returned", "failed"}
Places     == UserPlaces \cup SimPlaces

\* What the proof needs of the types: the two threads have a place each, and
\* nothing constructs the reset state again.
Types ==
    /\ machine \in States \cup {"none"}
    /\ target \in {"none", "Running", "Paused", "Stopped"}
    /\ pc \in [{User, Sim} -> Places]
    /\ pc[User] \in UserPlaces
    /\ pc[Sim] \in SimPlaces

\* Until the machine leaves the reset state User owns reset_mutex and nothing has
\* got into the simulation engine.
InReset ==
    machine = "Reset" =>
        /\ reset_mutex = User
        /\ pc[Sim] \notin Engine
        /\ pc[User] \in {"idle", "spawning", "starting", "started"}
        /\ pc[User] = "idle" => pc[Sim] = "none" /\ ~started

\* User waits for the start of Sim in the reset state only.
Starting ==
    /\ pc[User] \in {"spawning", "starting"} => pc[Sim] = "born" /\ machine = "Reset"
    /\ pc[User] = "started" => machine = "Reset"
    /\ pc[Sim] = "none" => ~started
    /\ pc[Sim] = "born" => ~started

UserInTransit == pc[User] \in {"entering", "stopEnter", "eosEnter"}
SimInTransit  == pc[Sim] \in {"pauseEnter", "eosEnter"}

\* A transition has one thread to complete it, which knows where it leads.
Transit ==
    /\ (machine = "none") <=> (UserInTransit \/ SimInTransit)
    /\ ~(UserInTransit /\ SimInTransit)
    /\ pc[User] = "entering" => target = "Running"
    /\ pc[User] \in {"stopEnter", "eosEnter"} => target = "Stopped"
    /\ pc[Sim] = "pauseEnter" => target = "Paused"
    /\ pc[Sim] = "eosEnter" => target = "Stopped"

\* Who waits for the end of the simulation has seen it stopped, or has left Sim
\* on its way to the end or to a pause that nobody ends.
Ending ==
    pc[User] \in {"stopped", "ending"} =>
        machine = "Stopped" \/ pc[Sim] \in {"pauseEnter", "pauseCall", "asleep", "eosEnter"}

IInv == Types /\ InReset /\ Starting /\ Transit /\ Ending /\ PausedIsQuiet


-----------------------------------------------------------------------------

USE ThreadsDiffer

\* What Target can be: a state that is entered by a transition, or no transition.
LEMMA TargetRange ==
    ASSUME NEW s, NEW ev
    PROVE  /\ Target(s, ev) \in {"none", "Running", "Paused", "Stopped"}
           /\ Target("none", ev) = "none"
           /\ Target("Stopped", ev) = "none"
           /\ ev = "stop" => Target(s, ev) \in {"none", "Stopped"}
           /\ ev = "run" => Target(s, ev) \in {"none", "Running"}
           /\ ev = "pause" => Target(s, ev) \in {"none", "Paused"}
  BY DEF Target

LEMMA InitInv == Init => IInv
  BY DEF Init, IInv, Types, InReset, Starting, Transit, Ending, PausedIsQuiet,
         States, UserPlaces, SimPlaces, Places, Engine, UserInTransit, SimInTransit

\* The steps of the kernel touch neither the state machine nor its mutex.
LEMMA KernelPreserves ==
    ASSUME IInv, StartStep \/ ModelStep \/ KernelStops \/ PauseCalled \/ Sleep
    PROVE  IInv'
  <1> USE DEF IInv, Types, InReset, Starting, Transit, Ending, PausedIsQuiet, kernel, Go,
              States, UserPlaces, SimPlaces, Places, Engine, UserInTransit, SimInTransit
  <1>1. CASE ThreadStarts
    BY <1>1 DEF ThreadStarts, ThreadMayStart
  <1>2. CASE Elaborate
    BY <1>2 DEF Elaborate
  <1>3. CASE Prepare
    BY <1>3 DEF Prepare
  <1>4. CASE Initialised \/ CheckStatus \/ Simulate
    BY <1>4 DEF Initialised, CheckStatus, Simulate
  <1>5. CASE ModelStep
    BY <1>5 DEF ModelStep, Elapse, Breakpoint, ModelStops, ModelFails, Exhausted
  <1>6. CASE KernelStops \/ PauseCalled
    BY <1>6 DEF KernelStops, PauseCalled
  <1>7. CASE Sleep
    BY <1>7 DEF Sleep
  <1> QED
    BY <1>1, <1>2, <1>3, <1>4, <1>5, <1>6, <1>7 DEF StartStep

LEMMA UserPreserves ==
    ASSUME IInv, Command \/ UserStep
    PROVE  IInv'
  <1> USE DEF IInv, Types, InReset, Starting, Transit, Ending, PausedIsQuiet, kernel, Go,
              States, UserPlaces, SimPlaces, Places, Engine, UserInTransit, SimInTransit
  <1> USE TargetRange
  <1>1. ASSUME NEW t \in BOOLEAN, RunFromReset(t)
        PROVE  IInv'
    BY <1>1 DEF RunFromReset
  <1>2. ASSUME NEW t \in BOOLEAN, Run(t)
        PROVE  IInv'
    <2>1. /\ Target(machine, "run") \in {"none", "Running"}
          /\ machine = "none" => Target(machine, "run") = "none"
      OBVIOUS
    <2>2. machine = "Paused" => Target(machine, "run") = "Running"
      BY DEF Target
    <2> QED
      BY <1>2, <2>1, <2>2 DEF Run, ProcessEvent
  <1>3. CASE Pause \/ NotifyPause \/ AwaitStart \/ AwaitEnd
    BY <1>3 DEF Pause, NotifyPause, AwaitStart, AwaitEnd
  <1>4. CASE Stop
    BY <1>4 DEF Stop, Ended
  <1>5. CASE LeaveReset
    <2>1. Target("Reset", "run") = "Running"
      BY DEF Target
    <2> QED
      BY <1>5, <2>1 DEF LeaveReset, ProcessEvent
  <1>6. CASE Enter \/ StopEnter
    BY <1>6 DEF Enter, StopEnter, Construct
  <1>7. CASE StopEvent
    <2>1. Target("Running", "stop") = "Stopped" /\ Target("Paused", "stop") = "Stopped"
      BY DEF Target
    <2> QED
      BY <1>7, <2>1 DEF StopEvent, ProcessEvent, Ended
  <1>8. CASE Eos(User)
    <2>1. /\ Target(machine, "stop") \in {"none", "Stopped"}
          /\ machine = "none" => Target(machine, "stop") = "none"
      OBVIOUS
    <2>2. CASE EosEvent(User)
      <3>1. machine = "Paused" => Target(machine, "stop") = "Stopped"
        BY DEF Target
      <3> QED
        BY <2>1, <2>2, <3>1 DEF EosEvent, EngineMayEnter, ProcessEvent
    <2>3. CASE EosEnter(User)
      BY <2>3 DEF EosEnter, Construct
    <2>4. CASE EosNotify(User)
      BY <2>4 DEF EosNotify
    <2> QED
      BY <1>8, <2>2, <2>3, <2>4 DEF Eos
  <1> QED
    BY <1>1, <1>2, <1>3, <1>4, <1>5, <1>6, <1>7, <1>8 DEF Command, UserStep

LEMMA EnginePreserves ==
    ASSUME IInv, PauseEvent \/ PauseEnter \/ Resume \/ Eos(Sim)
    PROVE  IInv'
  <1> USE DEF IInv, Types, InReset, Starting, Transit, Ending, PausedIsQuiet, kernel, Go,
              States, UserPlaces, SimPlaces, Places, Engine, UserInTransit, SimInTransit
  <1> USE TargetRange
  <1>1. CASE PauseEvent
    BY <1>1 DEF PauseEvent, EngineMayEnter, ProcessEvent
  <1>2. CASE PauseEnter
    BY <1>2 DEF PauseEnter, Construct
  <1>3. CASE Resume
    BY <1>3 DEF Resume, PauseUnlock
  <1>4. CASE EosEvent(Sim)
    BY <1>4 DEF EosEvent, EngineMayEnter, ProcessEvent
  <1>5. CASE EosEnter(Sim)
    BY <1>5 DEF EosEnter, Construct
  <1>6. CASE EosNotify(Sim)
    BY <1>6 DEF EosNotify
  <1> QED
    BY <1>1, <1>2, <1>3, <1>4, <1>5, <1>6 DEF Eos

LEMMA StepPreserves == IInv /\ [Next]_vars => IInv'
  <1> SUFFICES ASSUME IInv, [Next]_vars
               PROVE  IInv'
    OBVIOUS
  <1>1. CASE Next
    BY <1>1, KernelPreserves, UserPreserves, EnginePreserves
       DEF Next, SimStep, PauseStep
  <1>2. CASE UNCHANGED vars
    BY <1>2 DEF vars, IInv, Types, InReset, Starting, Transit, Ending, PausedIsQuiet,
                kernel, UserInTransit, SimInTransit
  <1> QED
    BY <1>1, <1>2

THEOREM Invariance == Spec => []IInv
  BY InitInv, StepPreserves, PTL DEF Spec

-----------------------------------------------------------------------------

\* The engine never processes an event in the reset state: reset_mutex keeps
\* simulation_engine::pause and end_of_simulation out until ~Reset_st unlocks it.
THEOREM ResetLeft == Spec => []ResetIsLeft
  <1>1. IInv => ResetIsLeft
    BY DEF IInv, InReset, ResetIsLeft
  <1> QED
    BY <1>1, Invariance, PTL

\* While the state machine is in Paused_st the thread of SystemC executes nothing
\* but the callbacks of the pause and the wait that follows them.
THEOREM PausedQuiet == Spec => []PausedIsQuiet
  <1>1. IInv => PausedIsQuiet
    BY DEF IInv
  <1> QED
    BY <1>1, Invariance, PTL

\* stop_simulation returns in Stopped_st only, however the simulation has ended
\* meanwhile and whichever thread has executed end_of_simulation.
THEOREM StopStops == Spec => StopMeansStopped
  <1> DEFINE Returns == pc[User] \in {"stopping", "ending"} /\ pc'[User] = "idle"
  <1>1. ASSUME IInv, Next, Returns
        PROVE  machine' = "Stopped"
    <2> USE <1>1 DEF IInv, Types, Starting, Transit, Ending, PausedIsQuiet, kernel, Go,
                     UserPlaces, SimPlaces, Places, UserInTransit, SimInTransit
    <2>1. CASE StopEvent
      BY <2>1 DEF StopEvent, ProcessEvent, Ended
    <2>2. CASE EosNotify(Sim)
      BY <2>2 DEF EosNotify
    <2>3. pc[User] # "idle" /\ pc[User] \notin {"eos", "eosEnter", "eosCall"}
      BY <1>1
    <2>4. CASE EosEvent(Sim)
      BY <2>4, <2>3 DEF EosEvent, ProcessEvent
    <2>5. CASE StartStep \/ ModelStep \/ PauseStep \/ KernelStops \/ EosEnter(Sim)
      BY <2>5, <2>3
         DEF StartStep, ThreadStarts, Elaborate, Prepare, Initialised, CheckStatus, Simulate,
             ModelStep, Elapse, Breakpoint, ModelStops, ModelFails, Exhausted, KernelStops,
             PauseStep, PauseCalled, PauseEvent, PauseEnter, Sleep, Resume, PauseUnlock,
             ProcessEvent, Construct, EosEnter
    <2>6. CASE Command \/ UserStep
      BY <2>6, <2>1, <2>3
         DEF Command, RunFromReset, Run, Pause, Stop, UserStep, AwaitStart, LeaveReset, Enter,
             NotifyPause, StopEnter, AwaitEnd, Construct, Eos, EosEvent, EosEnter, EosNotify
    <2> QED
      BY <2>2, <2>4, <2>5, <2>6 DEF Next, SimStep, Eos
  <1>2. IInv /\ [Next]_vars => [Returns => machine' = "Stopped"]_vars
    BY <1>1
  <1> QED
    BY <1>2, Invariance, PTL DEF Spec, StopMeansStopped

=============================================================================
