-------------------------------- MODULE MCKernel --------------------------------
(***************************************************************************)
(* The kernel modules for TLC.  They are independent of each other: a      *)
(* behaviour picks one of them and runs it, while the variables of the     *)
(* others stay as they are.                                                *)
(***************************************************************************)
EXTENDS KernelModules, SecretDevices, PseudoFiles, RcuBooks, DeferredWork, WlanDriver, DummyEth

VARIABLE program
kernelVars == <<program, klVars, sdVars, pfVars, rcVars, dwVars, wlVars, vars>>

MCTexts == {-1, 1, 2, 3}
Programs == {"loader", "secret", "pseudo", "rcu", "deferred", "wlan", "dummeth"}

(* A module that is not picked has one initial state; the RCU example and the deferred
   work are over, since something is said of how they go on from their start *)
RcAway ==
  /\ rcScript = <<>> /\ rcList = <<>> /\ rcNode = [b \in 1 .. RcNodes |-> [id |-> 0, borrow |-> 0]]
  /\ rcUsed = 0 /\ rcFreed = {} /\ rcPending = {} /\ rcCall = [at |-> "none", node |-> 0]
DwAway ==
  /\ dwModule = "timer" /\ dwPhase = "gone" /\ dwJob = "off" /\ dwHooked = FALSE
  /\ pressed_times = 0 /\ dwPrinted = 0 /\ condition = FALSE /\ dwSignal = FALSE

KernelInit ==
  /\ program \in Programs
  /\ KlInit /\ (program # "loader" => klModule = "slab1")
  /\ SdInit /\ (program # "secret" => sdDriver = "rdwr")
  /\ PfInit /\ (program # "pseudo" => pfFile = "procfs")
  /\ IF program = "rcu" THEN RcInit ELSE RcAway
  /\ IF program = "deferred" THEN DwInit ELSE DwAway
  /\ WlInit /\ InitWith(TRUE)

KernelNext ==
  \/ /\ program = "loader" /\ KlNext
     /\ UNCHANGED <<program, sdVars, pfVars, rcVars, dwVars, wlVars, vars>>
  \/ /\ program = "secret" /\ SdNext
     /\ UNCHANGED <<program, klVars, pfVars, rcVars, dwVars, wlVars, vars>>
  \/ /\ program = "pseudo" /\ PfNext
     /\ UNCHANGED <<program, klVars, sdVars, rcVars, dwVars, wlVars, vars>>
  \/ /\ program = "rcu" /\ RcNext
     /\ UNCHANGED <<program, klVars, sdVars, pfVars, dwVars, wlVars, vars>>
  \/ /\ program = "deferred" /\ DwNext
     /\ UNCHANGED <<program, klVars, sdVars, pfVars, rcVars, wlVars, vars>>
  \/ /\ program = "wlan" /\ WlNext
     /\ UNCHANGED <<program, klVars, sdVars, pfVars, rcVars, dwVars, vars>>
  \/ /\ program = "dummeth" /\ Traffic
     /\ UNCHANGED <<program, klVars, sdVars, pfVars, rcVars, dwVars, wlVars>>
  \* every module but the Ethernet driver may come to an end
  \/ program # "dummeth" /\ UNCHANGED kernelVars

(* The fairness of each component, for the module that is picked *)
WlPickedFairness ==
  /\ WF_wlVars(program = "wlan" /\ wi_scan) /\ WF_wlVars(program = "wlan" /\ wi_connect)
  /\ WF_wlVars(program = "wlan" /\ wi_disconnect) /\ WF_wlVars(program = "wlan" /\ schedule_work)
  /\ \A w \in Works : WF_wlVars(program = "wlan" /\ StartWork(w))
  /\ WF_wlVars(program = "wlan" /\ ScanSleep) /\ WF_wlVars(program = "wlan" /\ wlanidt_scan_routine)
  /\ WF_wlVars(program = "wlan" /\ wlanidt_connect_routine)
  /\ WF_wlVars(program = "wlan" /\ wlanidt_disconnect_routine)
  /\ SF_wlVars(program = "wlan" /\ ScanDone)
EthFairness ==
  \A d \in Devs : /\ WF_vars(program = "dummeth" /\ dummeth_hw_tx(d))
                  /\ WF_vars(program = "dummeth" /\ dummeth_poll(d))
                  /\ WF_vars(program = "dummeth" /\ dummeth_tx_timeout(d))
                  /\ SF_vars(program = "dummeth" /\ PollStart(d))

KernelSpec ==
  /\ KernelInit /\ [][KernelNext]_kernelVars
  /\ WF_rcVars(program = "rcu" /\ RcTask) /\ WF_rcVars(program = "rcu" /\ book_reclaim_callback)
  /\ WF_dwVars(program = "deferred" /\ DwJobs)
  /\ WF_dwVars(program = "deferred" /\ dwPhase # "loaded" /\ DwLoader)
  /\ WlPickedFairness /\ EthFairness
==============================================================================
