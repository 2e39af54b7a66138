----------------------------- MODULE Controller -----------------------------
(***************************************************************************)
(* Interactive control of a simulation (src/src/controller).  Two threads  *)
(* of the operating system share a state machine: User, which serves the   *)
(* console, and Sim, which User creates to execute sc_start.               *)
(*                                                                         *)
(* The state machine is not protected by a lock of its own.  A transition  *)
(* destroys the old state and then constructs the new one; what happens in *)
(* between is visible as machine = "none", where no state reacts to any    *)
(* event.  Sim is inside its kernel (lib/systemc/sc_simcontext.cpp) unless *)
(* it executes the pause method or end_of_simulation of simulation_engine. *)
(***************************************************************************)
CONSTANTS User, Sim, NULL

ASSUME ThreadsDiffer == User # Sim /\ NULL \notin {User, Sim}

VARIABLES
    machine,      \* the state of ControllerMachine
    target,       \* the state the transition under way constructs
    reset_mutex,  \* its owner
    timed,        \* pauseEvent will be notified at some time
    ready,        \* pauseEvent was notified: the pause method is runnable
    forced_stop,  \* sc_stop was called
    started,      \* start_of_simulation was called
    in_control,   \* m_in_simulator_control
    error,        \* sc_controller::error
    pc            \* where each thread is

kernel == <<forced_stop, started, in_control>>
vars   == <<machine, target, reset_mutex, timed, ready, kernel, error, pc>>

Go(th, place) == pc' = [pc EXCEPT ![th] = place]

-----------------------------------------------------------------------------
(* The state machine *)

\* Variant: running from the paused state does not leave it.
TargetStaysPaused(s, ev) ==
    CASE s = "Reset"   /\ ev = "run"   -> "Running"
      [] s = "Running" /\ ev = "pause" -> "Paused"
      [] s \in {"Running", "Paused"} /\ ev = "stop" -> "Stopped"
      [] OTHER -> "none"

\* The state that event ev leads to, "none" if s has no transition for it.
Target(s, ev) ==
    CASE s \in {"Reset", "Paused"} /\ ev = "run" -> "Running"
      [] s = "Running" /\ ev = "pause" -> "Paused"
      [] s \in {"Running", "Paused"} /\ ev = "stop" -> "Stopped"
      [] OTHER -> "none"

\* process_event: th leaves the current state and goes on at there, or the event
\* is discarded and th goes on at here.  The reactions of Paused notify
\* pause_condition, which is lost unless Sim waits on it.
ProcessEvent(th, ev, there, here) ==
    LET next     == Target(machine, ev)
        notifies == machine = "Paused" /\ ev \in {"run", "stop"}
    IN  /\ IF next # "none" THEN machine' = "none" /\ target' = next
                            ELSE UNCHANGED <<machine, target>>
        /\ pc' = [pc EXCEPT ![th]  = IF next # "none" THEN there ELSE here,
                            ![Sim] = IF notifies /\ @ = "asleep" THEN "awake" ELSE @]

\* The constructor of the new state.
Construct(th, place) ==
    /\ machine' = target
    /\ target' = "none"
    /\ Go(th, place)

\* Variant: the simulation engine does not lock reset_mutex.
EngineMayEnterAlways == TRUE
\* The engine locks reset_mutex before it touches the state machine.
EngineMayEnter == reset_mutex = NULL

-----------------------------------------------------------------------------
(* run_simulation; t is whether it is given a time *)

\* In the reset state the reaction creates Sim and waits for it to start.
RunFromReset(t) ==
    /\ pc[User] = "idle" /\ ~error /\ machine = "Reset"
    /\ timed' = t
    /\ pc' = [pc EXCEPT ![User] = "spawning", ![Sim] = "born"]
    /\ UNCHANGED <<machine, target, reset_mutex, ready, kernel, error>>

\* User holds start_of_sim_mutex until it waits on start_of_sim_cond.
AwaitStart ==
    /\ pc[User] = "spawning"
    /\ Go(User, "starting")
    /\ UNCHANGED <<machine, target, reset_mutex, timed, ready, kernel, error>>

\* Variant: the thread does not lock start_of_sim_mutex before it notifies.
ThreadMayStartEarly == pc[User] \in {"spawning", "starting"}
ThreadMayStart      == pc[User] = "starting"

\* controllerThread_interactive: notify start_of_sim_cond, call sc_start.
ThreadStarts ==
    /\ pc[Sim] = "born" /\ ThreadMayStart
    /\ pc' = [pc EXCEPT ![Sim] = "called",
                        ![User] = IF @ = "starting" THEN "started" ELSE @]
    /\ UNCHANGED <<machine, target, reset_mutex, timed, ready, kernel, error>>

\* The destructor of the reset state unlocks reset_mutex.
LeaveReset ==
    /\ pc[User] = "started"
    /\ ProcessEvent(User, "run", "entering", "idle")
    /\ reset_mutex' = NULL
    /\ UNCHANGED <<timed, ready, kernel, error>>

\* In another state, where only the paused one reacts.
Run(t) ==
    /\ pc[User] = "idle" /\ ~error /\ machine # "Reset"
    /\ ProcessEvent(User, "run", "entering", "idle")
    /\ timed' = IF machine = "Paused" THEN t ELSE timed
    /\ UNCHANGED <<reset_mutex, ready, kernel, error>>

Enter ==
    /\ pc[User] = "entering"
    /\ Construct(User, "idle")
    /\ UNCHANGED <<reset_mutex, timed, ready, kernel, error>>

-----------------------------------------------------------------------------
(* pause_simulation *)

\* The state is tested first, the event is notified afterwards.
Pause ==
    /\ pc[User] = "idle" /\ ~error /\ machine = "Running"
    /\ Go(User, "pausing")
    /\ UNCHANGED <<machine, target, reset_mutex, timed, ready, kernel, error>>

NotifyPause ==
    /\ pc[User] = "pausing"
    /\ timed' = FALSE
    /\ ready' = TRUE
    /\ Go(User, "idle")
    /\ UNCHANGED <<machine, target, reset_mutex, kernel, error>>

-----------------------------------------------------------------------------
(* stop_simulation *)

\* Variant: whatever is neither running nor paused has ended.
EndedUnlessActive == machine \notin {"Running", "Paused"}
\* is_ended
Ended == machine = "Stopped"

\* sc_stop drops the runnable processes and leaves the end of the simulation to
\* the kernel, or performs it here if the kernel is not in control.
Stop ==
    /\ pc[User] = "idle" /\ ~error /\ started /\ ~Ended
    /\ forced_stop' = TRUE
    /\ ready' = (ready /\ forced_stop)
    /\ Go(User, IF forced_stop \/ in_control THEN "stopping" ELSE "eos")
    /\ UNCHANGED <<machine, target, reset_mutex, timed, started, in_control, error>>

StopEvent ==
    /\ pc[User] = "stopping"
    /\ \/ /\ Ended
          /\ Go(User, "idle")
          /\ UNCHANGED <<machine, target>>
       \/ /\ ~Ended
          /\ ProcessEvent(User, "stop", "stopEnter", "stopped")
    /\ UNCHANGED <<reset_mutex, timed, ready, kernel, error>>

StopEnter ==
    /\ pc[User] = "stopEnter"
    /\ Construct(User, "stopped")
    /\ UNCHANGED <<reset_mutex, timed, ready, kernel, error>>

\* end_condition.wait, woken by EosNotify only.
AwaitEnd ==
    /\ pc[User] = "stopped"
    /\ Go(User, "ending")
    /\ UNCHANGED <<machine, target, reset_mutex, timed, ready, kernel, error>>

-----------------------------------------------------------------------------
(* The kernel *)

\* initialize(): start_of_simulation, a first look at forced_stop, and the end
\* of the kernel's control until simulate() takes it back.
Elaborate ==
    /\ pc[Sim] = "called"
    /\ started' = TRUE /\ in_control' = TRUE
    /\ Go(Sim, "simulated")
    /\ UNCHANGED <<machine, target, reset_mutex, timed, ready, forced_stop, error>>

Prepare ==
    /\ pc[Sim] = "simulated"
    /\ Go(Sim, IF forced_stop THEN "eos" ELSE "prepared")
    /\ UNCHANGED <<machine, target, reset_mutex, timed, ready, kernel, error>>

Initialised ==
    /\ pc[Sim] = "prepared"
    /\ in_control' = FALSE
    /\ Go(Sim, "initialised")
    /\ UNCHANGED <<machine, target, reset_mutex, timed, ready, forced_stop, started, error>>

CheckStatus ==
    /\ pc[Sim] = "initialised"
    /\ Go(Sim, IF forced_stop THEN "returned" ELSE "checked")
    /\ UNCHANGED <<machine, target, reset_mutex, timed, ready, kernel, error>>

Simulate ==
    /\ pc[Sim] = "checked"
    /\ in_control' = TRUE
    /\ Go(Sim, "kernel")
    /\ UNCHANGED <<machine, target, reset_mutex, timed, ready, forced_stop, started, error>>

\* The time of the timed notification is reached.
Elapse ==
    /\ pc[Sim] = "kernel" /\ timed
    /\ timed' = FALSE /\ ready' = TRUE
    /\ UNCHANGED <<machine, target, reset_mutex, kernel, error, pc>>

\* A breakpoint, called at the start of a delta cycle, pauses the simulation.
Breakpoint ==
    /\ pc[Sim] = "kernel" /\ ~forced_stop /\ ~error /\ machine = "Running"
    /\ timed' = FALSE /\ ready' = TRUE
    /\ UNCHANGED <<machine, target, reset_mutex, kernel, error, pc>>

\* A component calls sc_stop.
ModelStops ==
    /\ pc[Sim] = "kernel" /\ ~forced_stop
    /\ forced_stop' = TRUE /\ ready' = FALSE
    /\ UNCHANGED <<machine, target, reset_mutex, timed, started, in_control, error, pc>>

\* A component throws: my_terminate_handler keeps the thread for ever.
ModelFails ==
    /\ pc[Sim] = "kernel"
    /\ error' = TRUE
    /\ Go(Sim, "failed")
    /\ UNCHANGED <<machine, target, reset_mutex, timed, ready, kernel>>

\* No event is left: sc_start returns, end_of_simulation is not called.
Exhausted ==
    /\ pc[Sim] = "kernel" /\ ~timed /\ ~ready /\ ~forced_stop
    /\ in_control' = FALSE
    /\ Go(Sim, "returned")
    /\ UNCHANGED <<machine, target, reset_mutex, timed, ready, forced_stop, started, error>>

\* The kernel sees sc_stop between two methods.
KernelStops ==
    /\ pc[Sim] = "kernel" /\ forced_stop
    /\ Go(Sim, "eos")
    /\ UNCHANGED <<machine, target, reset_mutex, timed, ready, kernel, error>>

-----------------------------------------------------------------------------
(* simulation_engine::pause *)

PauseCalled ==
    /\ pc[Sim] = "kernel" /\ ready
    /\ ready' = FALSE
    /\ Go(Sim, "pauseLock")
    /\ UNCHANGED <<machine, target, reset_mutex, timed, kernel, error>>

PauseEvent ==
    /\ pc[Sim] = "pauseLock" /\ EngineMayEnter
    /\ reset_mutex' = Sim
    /\ ProcessEvent(Sim, "pause", "pauseEnter", "pauseCall")
    /\ UNCHANGED <<timed, ready, kernel, error>>

PauseEnter ==
    /\ pc[Sim] = "pauseEnter"
    /\ Construct(Sim, "pauseCall")
    /\ UNCHANGED <<reset_mutex, timed, ready, kernel, error>>

\* After the callbacks, pause_condition.wait without looking at the state again.
Sleep ==
    /\ pc[Sim] = "pauseCall"
    /\ Go(Sim, "asleep")
    /\ UNCHANGED <<machine, target, reset_mutex, timed, ready, kernel, error>>

\* Variant: reset_mutex stays locked after a pause.
PauseUnlockNever == UNCHANGED reset_mutex
PauseUnlock      == reset_mutex' = NULL

Resume ==
    /\ pc[Sim] = "awake"
    /\ PauseUnlock
    /\ Go(Sim, "kernel")
    /\ UNCHANGED <<machine, target, timed, ready, kernel, error>>

-----------------------------------------------------------------------------
(* simulation_engine::end_of_simulation, executed by either thread *)

EosEvent(th) ==
    /\ pc[th] = "eos" /\ EngineMayEnter
    /\ reset_mutex' = IF Target(machine, "stop") # "none" THEN th ELSE NULL
    /\ ProcessEvent(th, "stop", "eosEnter", "eosCall")
    /\ UNCHANGED <<timed, ready, kernel, error>>

EosEnter(th) ==
    /\ pc[th] = "eosEnter"
    /\ Construct(th, "eosCall")
    /\ reset_mutex' = NULL
    /\ UNCHANGED <<timed, ready, kernel, error>>

\* The callbacks, then end_condition.notify_all, lost unless User waits on it.
EosNotify(th) ==
    /\ pc[th] = "eosCall"
    /\ in_control' = FALSE
    /\ pc' = IF th = Sim
             THEN [pc EXCEPT ![Sim] = "returned", ![User] = IF @ = "ending" THEN "idle" ELSE @]
             ELSE [pc EXCEPT ![User] = "stopping"]
    /\ UNCHANGED <<machine, target, reset_mutex, timed, ready, forced_stop, started, error>>

Eos(th) == EosEvent(th) \/ EosEnter(th) \/ EosNotify(th)

-----------------------------------------------------------------------------

Init ==
    /\ machine = "Reset" /\ target = "none"
    /\ reset_mutex = User        \* the constructor of the reset state locks it
    /\ timed = FALSE /\ ready = FALSE
    /\ forced_stop = FALSE /\ started = FALSE /\ in_control = FALSE
    /\ error = FALSE
    /\ pc = [th \in {User, Sim} |-> IF th = User THEN "idle" ELSE "none"]

\* The commands of the console, and the way each of them goes on.
Command  == (\E t \in BOOLEAN : RunFromReset(t) \/ Run(t)) \/ Pause \/ Stop
UserStep == \/ AwaitStart \/ LeaveReset \/ Enter \/ NotifyPause
            \/ StopEvent \/ StopEnter \/ AwaitEnd \/ Eos(User)

PauseStep == PauseCalled \/ PauseEvent \/ PauseEnter \/ Sleep \/ Resume
StartStep == ThreadStarts \/ Elaborate \/ Prepare \/ Initialised \/ CheckStatus \/ Simulate
ModelStep == Elapse \/ Breakpoint \/ ModelStops \/ ModelFails \/ Exhausted
SimStep   == PauseStep \/ StartStep \/ KernelStops \/ Eos(Sim)

Next == Command \/ UserStep \/ SimStep \/ ModelStep

Spec == Init /\ [][Next]_vars

\* The operating system schedules both threads, and the kernel executes the
\* methods that are runnable; nobody has to issue a command.
FairSpec == Spec /\ WF_vars(UserStep) /\ WF_vars(SimStep)

-----------------------------------------------------------------------------
(* Properties *)

Engine == {"pauseEnter", "pauseCall", "asleep", "awake", "eosEnter", "eosCall"}

\* However fast a simulation pauses or ends, its events never reach the state
\* machine in the reset state, where they would be discarded.
ResetIsLeft == pc[Sim] \in Engine => machine # "Reset"

\* A simulation shown as paused is stopped in the pause method: the components
\* can be inspected and changed.
PausedIsQuiet == machine = "Paused" => pc[Sim] \in {"pauseCall", "asleep"}

\* When stop_simulation returns the simulation is shown as ended, whoever ended it.
StopMeansStopped ==
    [][ pc[User] \in {"stopping", "ending"} /\ pc'[User] = "idle" => machine' = "Stopped" ]_vars

\* Sim sleeps in the pause method only while a run of the user would wake it.
SleepsOnlyWhilePaused ==
    pc[Sim] = "asleep" /\ pc[User] = "idle" => machine = "Paused"

\* Who waits for end_condition will still be notified.  No run checks it: the TODO in
\* stop_simulation expects a deadlock, and the notification may come before the wait.
EndIsHeard == pc[User] = "ending" => pc[Sim] # "returned"

\* run_simulation always gives the console back.
RunReturns == pc[User] \in {"spawning", "starting", "started", "entering"} ~> pc[User] = "idle"

\* A pause that finds the simulation running brings it to a standstill.
PauseTakesEffect == pc[User] = "pausing" ~> pc[Sim] \in {"asleep", "returned", "failed"}

=============================================================================
