----------------------------- MODULE DeferredWork -----------------------------
(***************************************************************************)
(* Four kernel modules that start something which runs later, and unload:  *)
(* kirq-th-tasklet (a tasklet that a key press schedules), ktimer (a       *)
(* timer), kirq-bh-workqueue (a work item the init function waits for) and *)
(* kthread (a kernel thread that sleeps until it is stopped).              *)
(***************************************************************************)
EXTENDS Naturals

CONSTANTS
  DwModules,    \* a subset of {"tasklet", "timer", "workqueue", "kthread"}
  DwCpus,       \* on one CPU a timer callback runs to its end before rmmod goes on
  DwPresses     \* bound: key presses

ASSUME DwAssumption == DwModules \subseteq {"tasklet", "timer", "workqueue", "kthread"}

VARIABLES
  dwModule,     \* the module this behaviour is about
  dwPhase,      \* where insmod or rmmod is: "init", "loaded", "exit1", "exit2", "gone"
  dwJob,        \* what the deferred code does: "off", "queued", "running", ...
  dwHooked,     \* request_irq() succeeded and the handler is installed
  pressed_times,
  dwPrinted,    \* the number of presses the tasklet printed last
  condition,    \* the work item's flag; kthread_should_stop() of the thread
  dwSignal      \* a signal for the waiting insmod or for the thread

dwVars == <<dwModule, dwPhase, dwJob, dwHooked, pressed_times, dwPrinted, condition, dwSignal>>
presses == <<pressed_times, dwPrinted>>

DwInit ==
  /\ dwModule \in DwModules
  /\ dwPhase = "init" /\ dwJob = "off" /\ dwHooked = FALSE
  /\ pressed_times = 0 /\ dwPrinted = 0 /\ condition = FALSE /\ dwSignal = FALSE

Phase(m, from, to) == dwModule = m /\ dwPhase = from /\ dwPhase' = to
Job(m, from, to) == dwModule = m /\ dwJob = from /\ dwJob' = to

-----------------------------------------------------------------------------
(* tasklet: a failed request_irq() is only printed *)
tasklet_init_module ==
  /\ Phase("tasklet", "init", "loaded")
  /\ dwHooked' \in BOOLEAN
  /\ UNCHANGED <<dwModule, dwJob, presses, condition, dwSignal>>

(* A press while the tasklet runs schedules it again *)
irq_1_handler_NotAgain ==
  /\ dwModule = "tasklet" /\ dwHooked /\ pressed_times < DwPresses
  /\ pressed_times' = pressed_times + 1
  /\ dwJob' = IF dwJob = "off" THEN "queued" ELSE dwJob
  /\ UNCHANGED <<dwModule, dwPhase, dwHooked, dwPrinted, condition, dwSignal>>

irq_1_handler ==
  /\ dwModule = "tasklet" /\ dwHooked /\ pressed_times < DwPresses
  /\ pressed_times' = pressed_times + 1
  /\ dwJob' = IF dwJob = "off" THEN "queued" ELSE IF dwJob = "running" THEN "again" ELSE dwJob
  /\ UNCHANGED <<dwModule, dwPhase, dwHooked, dwPrinted, condition, dwSignal>>

tasklet_function ==
  \/ /\ Job("tasklet", "queued", "running")
     /\ dwPrinted' = pressed_times
     /\ UNCHANGED <<dwModule, dwPhase, dwHooked, pressed_times, condition, dwSignal>>
  \/ /\ \/ Job("tasklet", "running", "off")
        \/ Job("tasklet", "again", "queued")
     /\ UNCHANGED <<dwModule, dwPhase, dwHooked, presses, condition, dwSignal>>

(* free_irq(), then tasklet_kill(), which waits until the tasklet is off *)
tasklet_cleanup_module_Swapped ==
  /\ UNCHANGED <<dwModule, dwJob, presses, condition, dwSignal>>
  /\ \/ Phase("tasklet", "loaded", "exit1") /\ dwJob = "off" /\ UNCHANGED dwHooked
     \/ Phase("tasklet", "exit1", "gone") /\ dwHooked' = FALSE

tasklet_cleanup_module ==
  /\ UNCHANGED <<dwModule, dwJob, presses, condition, dwSignal>>
  /\ \/ Phase("tasklet", "loaded", "exit1") /\ dwHooked' = FALSE
     \/ Phase("tasklet", "exit1", "gone") /\ dwJob = "off" /\ UNCHANGED dwHooked

-----------------------------------------------------------------------------
(* timer: set once by the init function; del_timer() does not wait *)
timer_this_init ==
  /\ Phase("timer", "init", "loaded") /\ dwJob' = "queued"
  /\ UNCHANGED <<dwModule, dwHooked, presses, condition, dwSignal>>

this_timer_callback ==
  /\ Job("timer", "queued", "running") \/ Job("timer", "running", "off")
  /\ UNCHANGED <<dwModule, dwPhase, dwHooked, presses, condition, dwSignal>>

timer_this_exit ==
  /\ Phase("timer", "loaded", "gone")
  /\ DwCpus = 1 => dwJob # "running"
  /\ dwJob' = IF dwJob = "queued" THEN "off" ELSE dwJob
  /\ UNCHANGED <<dwModule, dwHooked, presses, condition, dwSignal>>

-----------------------------------------------------------------------------
(* workqueue: insmod sleeps until the work item has run, or a signal comes *)
this_wq_init ==
  /\ dwModule = "workqueue" /\ dwPhase = "init"
  /\ \/ dwJob = "off" /\ ~condition /\ dwJob' = "queued" /\ UNCHANGED dwPhase
     \/ (condition \/ (dwSignal /\ dwJob # "off")) /\ dwPhase' = "loaded" /\ UNCHANGED dwJob
  /\ UNCHANGED <<dwModule, dwHooked, presses, condition, dwSignal>>

job_handler ==
  /\ \/ Job("workqueue", "queued", "running") /\ UNCHANGED condition
     \/ Job("workqueue", "running", "woken") /\ condition' = TRUE
     \/ Job("workqueue", "woken", "off") /\ UNCHANGED condition
  /\ UNCHANGED <<dwModule, dwPhase, dwHooked, presses, dwSignal>>

(* The exit function only prints: the work item is not waited for *)
this_wq_exit ==
  /\ Phase("workqueue", "loaded", "gone")
  /\ UNCHANGED <<dwModule, dwJob, dwHooked, presses, condition, dwSignal>>

-----------------------------------------------------------------------------
(* kthread: the loop test, set_current_state(TASK_INTERRUPTIBLE), schedule() *)
kthread_p_load ==
  /\ Phase("kthread", "init", "loaded") /\ dwJob' = "test"
  /\ UNCHANGED <<dwModule, dwHooked, presses, condition, dwSignal>>

simple_kthread ==
  /\ dwModule = "kthread"
  /\ \/ dwJob = "test" /\ dwJob' = IF condition THEN "off" ELSE "about"
     \/ dwJob = "about" /\ dwJob' = "sleepy"          \* TASK_INTERRUPTIBLE
     \/ dwJob = "sleepy" /\ dwJob' = IF dwSignal THEN "awake" ELSE "asleep"
     \/ dwJob = "asleep" /\ dwSignal /\ dwJob' = "awake"
     \/ dwJob = "awake" /\ dwJob' = IF dwSignal THEN "off" ELSE "test"
  /\ UNCHANGED <<dwModule, dwPhase, dwHooked, presses, condition, dwSignal>>

Signal ==
  /\ dwModule \in {"workqueue", "kthread"} /\ ~dwSignal /\ dwPhase # "gone"
  /\ dwSignal' = TRUE
  /\ UNCHANGED <<dwModule, dwPhase, dwJob, dwHooked, presses, condition>>

(* kthread_stop(): set the flag, wake the thread, wait for its end *)
kthread_p_unload ==
  /\ UNCHANGED <<dwModule, dwHooked, presses, dwSignal>>
  /\ \/ Phase("kthread", "loaded", "exit1") /\ condition' = TRUE /\ UNCHANGED dwJob
     \/ /\ Phase("kthread", "exit1", "exit2") /\ UNCHANGED condition
        /\ dwJob' = IF dwJob \in {"sleepy", "asleep"} THEN "awake" ELSE dwJob
     \/ Phase("kthread", "exit2", "gone") /\ dwJob = "off" /\ UNCHANGED <<condition, dwJob>>

-----------------------------------------------------------------------------
DwJobs == tasklet_function \/ this_timer_callback \/ job_handler \/ simple_kthread
DwLoader ==
  \/ tasklet_init_module \/ tasklet_cleanup_module \/ timer_this_init \/ timer_this_exit
  \/ this_wq_init \/ this_wq_exit \/ kthread_p_load \/ kthread_p_unload

DwNext == DwJobs \/ DwLoader \/ irq_1_handler \/ Signal

(* The kernel runs what is queued, and a started insmod or rmmod goes on *)
DwFairness == WF_dwVars(DwJobs) /\ WF_dwVars(dwPhase # "loaded" /\ DwLoader)
DwSpec == DwInit /\ [][DwNext]_dwVars /\ DwFairness

-----------------------------------------------------------------------------
(***************************************************************************)
(* When rmmod has finished nothing of the module runs or is queued: the     *)
(* tasklet is killed after the interrupt that schedules it is gone,         *)
(* kthread_stop() waits, and on one CPU the timer callback cannot be in the *)
(* middle when del_timer() is called.  (kirq-bh-workqueue does not wait for  *)
(* its work item.)                                                          *)
(***************************************************************************)
DwNothingRunsAfterUnload == dwPhase = "gone" /\ dwModule # "workqueue" => dwJob = "off"

(***************************************************************************)
(* No key press is lost: after each, the tasklet prints a count that        *)
(* includes it, although presses that come while it is scheduled or runs    *)
(* are handled by one more run, and rmmod can come at any time.             *)
(***************************************************************************)
DwPressesPrinted == \A n \in 1 .. DwPresses : pressed_times = n ~> dwPrinted >= n

(* insmod of the workqueue module returns: the wakeup is not lost. *)
DwInitReturns == dwPhase = "init" ~> dwPhase = "loaded"

(***************************************************************************)
(* "waits for our kthread to terminate" (kthread/kthread_p.c:90): rmmod     *)
(* returns, because the thread that kthread_stop() wakes sees the flag.     *)
(***************************************************************************)
KthreadStopReturns == dwPhase = "exit1" ~> dwPhase = "gone"

(* Presses are not lost between handler and tasklet, and insmod does not miss its wakeup. *)
DwProgress == DwPressesPrinted /\ DwInitReturns
==============================================================================
