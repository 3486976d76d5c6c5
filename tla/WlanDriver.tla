------------------------------ MODULE WlanDriver ------------------------------
(***************************************************************************)
(* The virtual FullMAC wireless driver (kwlan-if/core.c): the callbacks that *)
(* cfg80211 calls one at a time, the three work items that answer them, and  *)
(* the unloading of the module.                                             *)
(*                                                                         *)
(* A section under wictx->sem is one step; schedule_work comes after it and  *)
(* is a step of its own.  What cfg80211 remembers of a scan and of the       *)
(* connection is modelled from how the driver uses it.                      *)
(***************************************************************************)
EXTENDS Integers, FiniteSets

CONSTANTS
  Requests,    \* addresses of cfg80211's scan requests
  MayUnload,   \* the module may be unloaded
  Quiet,       \* no user calls once unloading starts, and no connection is left
  WlNULL

ASSUME WlanAssumption == WlNULL \notin Requests /\ {MayUnload, Quiet} \subseteq BOOLEAN

Works == {"scan", "connect", "disconnect"}
Ssids == {"dummy", "other"}

VARIABLES
  scan_request, connecting_ssid,      \* the fields of wictx
  pending, running,                   \* the work items queued, and the ones running
  informed,                           \* scan routine: past its sleep
  call,                               \* the callback in progress and where it is
  rdev_scan_req,                      \* external: cfg80211's scan request
  done,                               \* external: cfg80211_scan_done was called for it
  conn,                               \* external: cfg80211's view of the connection
  unload                              \* how far virtual_wifi_exit is

wictx == <<scan_request, connecting_ssid>>
works == <<pending, running, informed>>
cfg80211 == <<rdev_scan_req, done, conn>>
wlVars == <<wictx, works, call, cfg80211, unload>>

UnloadSteps == {"no", "connect", "disconnect", "scan", "ndev", "wiphy", "freed"}

WlNone == [op |-> "none", at |-> "-"]

WlTypeOK ==
  /\ scan_request \in Requests \cup {WlNULL}
  /\ connecting_ssid \in Ssids \cup {""}
  /\ pending \subseteq Works /\ running \subseteq Works
  /\ informed \in BOOLEAN /\ done \in BOOLEAN /\ (done => rdev_scan_req # WlNULL)
  /\ call \in {WlNone} \cup [op : Works \cup {"unregister"}, at : {"sem", "schedule"}]
  /\ rdev_scan_req \in Requests \cup {WlNULL}
  /\ conn \in {"idle", "connecting", "connected"}
  /\ unload \in UnloadSteps

\* virtual_wifi_init.
WlInit ==
  /\ scan_request = WlNULL /\ connecting_ssid = ""
  /\ pending = {} /\ running = {} /\ informed = FALSE
  /\ call = WlNone
  /\ rdev_scan_req = WlNULL /\ done = FALSE
  /\ conn = "idle"
  /\ unload = "no"

------------------------------------------------------------------------------
\* External: cfg80211 calls an operation, one at a time, for as long as the
\* device is registered.  It has one scan at a time.
UserMayCall ==
  /\ call = WlNone
  /\ unload \in (IF Quiet THEN {"no"} ELSE {"no", "connect", "disconnect", "scan"})

UserScan ==
  /\ UserMayCall /\ rdev_scan_req = WlNULL
  /\ \E r \in Requests : rdev_scan_req' = r
  /\ call' = [op |-> "scan", at |-> "sem"]
  /\ UNCHANGED <<wictx, works, done, conn, unload>>

UserConnect ==
  /\ UserMayCall /\ conn = "idle"
  /\ conn' = "connecting"
  /\ call' = [op |-> "connect", at |-> "sem"]
  /\ UNCHANGED <<wictx, works, rdev_scan_req, done, unload>>

UserDisconnect ==
  /\ UserMayCall /\ conn # "idle"
  /\ call' = [op |-> "disconnect", at |-> "sem"]
  /\ conn' = IF conn = "connecting" THEN "idle" ELSE conn
  /\ UNCHANGED <<wictx, works, rdev_scan_req, done, unload>>

\* What cfg80211 does with the return value of an operation.
WlReturns(op, ok) ==
  /\ call' = WlNone
  /\ rdev_scan_req' = IF op = "scan" /\ ~ok THEN WlNULL ELSE rdev_scan_req
  /\ conn' = IF op = "connect" /\ ~ok THEN "idle" ELSE conn
  /\ UNCHANGED done

\* down_interruptible of any callback: a signal ends it with -ERESTARTSYS.
WlInterrupted ==
  /\ call.at = "sem" /\ call.op # "unregister"
  /\ WlReturns(call.op, FALSE)
  /\ UNCHANGED <<wictx, works, unload>>

\* Mutant: the routine is not scheduled.
wi_scan_NotScheduled ==
  /\ call = [op |-> "scan", at |-> "sem"]
  /\ scan_request' = IF scan_request = WlNULL THEN rdev_scan_req ELSE scan_request
  /\ WlReturns("scan", scan_request = WlNULL)
  /\ UNCHANGED <<connecting_ssid, works, unload>>

\* wi_scan, up to the release of the semaphore.
wi_scan ==
  /\ call = [op |-> "scan", at |-> "sem"]
  /\ IF scan_request # WlNULL
     THEN WlReturns("scan", FALSE) /\ UNCHANGED scan_request
     ELSE /\ scan_request' = rdev_scan_req
          /\ call' = [call EXCEPT !.at = "schedule"]
          /\ UNCHANGED cfg80211
  /\ UNCHANGED <<connecting_ssid, works, unload>>

wi_connect ==
  /\ call = [op |-> "connect", at |-> "sem"]
  /\ \E s \in Ssids : connecting_ssid' = s
  /\ call' = [call EXCEPT !.at = "schedule"]
  /\ UNCHANGED <<scan_request, works, cfg80211, unload>>

\* The reason code is not modelled.  unregister_netdev disconnects, too.
wi_disconnect ==
  /\ call.op \in {"disconnect", "unregister"} /\ call.at = "sem"
  /\ call' = [call EXCEPT !.at = "schedule"]
  /\ UNCHANGED <<wictx, works, cfg80211, unload>>

\* schedule_work at the end of the three callbacks: -EBUSY when it is still queued.
WorkOf(op) == IF op = "unregister" THEN "disconnect" ELSE op

schedule_work ==
  /\ call.at = "schedule"
  /\ pending' = pending \cup {WorkOf(call.op)}
  /\ WlReturns(call.op, WorkOf(call.op) \notin pending)
  /\ UNCHANGED <<wictx, running, informed, unload>>

------------------------------------------------------------------------------
\* External: the work queue runs what is queued, never one item twice at a time.
StartWork(w) ==
  /\ w \in pending \ running
  /\ pending' = pending \ {w}
  /\ running' = running \cup {w}
  /\ UNCHANGED <<wictx, informed, call, cfg80211, unload>>

\* msleep, then inform_dummy_bss.
ScanSleep ==
  /\ "scan" \in running /\ ~informed
  /\ informed' = TRUE
  /\ UNCHANGED <<wictx, pending, running, call, cfg80211, unload>>

\* Mutant: the request is kept after cfg80211_scan_done.
wlanidt_scan_routine_Kept ==
  /\ "scan" \in running /\ informed
  /\ done' = TRUE
  /\ running' = running \ {"scan"} /\ informed' = FALSE
  /\ UNCHANGED <<wictx, pending, call, rdev_scan_req, conn, unload>>

wlanidt_scan_routine ==
  /\ "scan" \in running /\ informed
  /\ done' = TRUE
  /\ scan_request' = WlNULL
  /\ running' = running \ {"scan"} /\ informed' = FALSE
  /\ UNCHANGED <<connecting_ssid, pending, call, rdev_scan_req, conn, unload>>

\* External: cfg80211 forgets the request some time after cfg80211_scan_done.
ScanDone ==
  /\ done /\ call = WlNone
  /\ rdev_scan_req' = WlNULL /\ done' = FALSE
  /\ UNCHANGED <<wictx, works, call, conn, unload>>

\* cfg80211_connect_bss or cfg80211_connect_timeout, then the SSID is cleared.
wlanidt_connect_routine ==
  /\ "connect" \in running
  /\ conn' = IF conn # "connecting" THEN conn
             ELSE IF connecting_ssid = "dummy" THEN "connected" ELSE "idle"
  /\ connecting_ssid' = ""
  /\ running' = running \ {"connect"}
  /\ UNCHANGED <<scan_request, pending, informed, call, rdev_scan_req, done, unload>>

\* cfg80211_disconnected.
wlanidt_disconnect_routine ==
  /\ "disconnect" \in running
  /\ conn' = IF conn = "connected" THEN "idle" ELSE conn
  /\ running' = running \ {"disconnect"}
  /\ UNCHANGED <<wictx, pending, informed, call, rdev_scan_req, done, unload>>

------------------------------------------------------------------------------
\* cancel_work_sync takes the item off the queue and waits if it runs.
cancel_work_sync(w, after) ==
  /\ w \notin running
  /\ pending' = pending \ {w}
  /\ unload' = after
  /\ UNCHANGED <<wictx, running, informed, call, cfg80211>>

\* unregister_netdev: cfg80211 drops a scan of the device and disconnects it.
unregister_netdev ==
  /\ call = WlNone
  /\ unload' = "ndev"
  /\ rdev_scan_req' = WlNULL /\ done' = FALSE
  /\ conn' = "idle"
  /\ call' = IF conn = "idle" THEN WlNone ELSE [op |-> "unregister", at |-> "sem"]
  /\ UNCHANGED <<wictx, works>>

wiphy_unregister ==
  /\ unload' = "wiphy"
  /\ call = WlNone
  /\ UNCHANGED <<wictx, works, call, cfg80211>>

\* wiphy_free and kfree(ctx).
WlFree ==
  /\ unload' = "freed"
  /\ UNCHANGED <<wictx, works, call, cfg80211>>

virtual_wifi_exit ==
  \/ /\ unload = "no" /\ MayUnload
     /\ Quiet => call = WlNone /\ conn = "idle"
     /\ cancel_work_sync("connect", "connect")
  \/ unload = "connect" /\ cancel_work_sync("disconnect", "disconnect")
  \/ unload = "disconnect" /\ cancel_work_sync("scan", "scan")
  \/ unload = "scan" /\ unregister_netdev
  \/ unload = "ndev" /\ wiphy_unregister
  \/ unload = "wiphy" /\ WlFree

Callback == WlInterrupted \/ wi_scan \/ wi_connect \/ wi_disconnect \/ schedule_work
Routine == ScanSleep \/ wlanidt_scan_routine \/ wlanidt_connect_routine \/ wlanidt_disconnect_routine

WlNext ==
  \/ UserScan \/ UserConnect \/ UserDisconnect
  \/ Callback
  \/ \E w \in Works : StartWork(w)
  \/ Routine \/ ScanDone
  \/ virtual_wifi_exit

WlSpec == WlInit /\ [][WlNext]_wlVars

\* The callbacks return, the work queue runs what is queued, and cfg80211's own work
\* runs too.  Nothing forces a user to call.
WlFairness ==
  /\ WF_wlVars(wi_scan) /\ WF_wlVars(wi_connect) /\ WF_wlVars(wi_disconnect) /\ WF_wlVars(schedule_work)
  /\ \A w \in Works : WF_wlVars(StartWork(w))
  /\ WF_wlVars(ScanSleep) /\ WF_wlVars(wlanidt_scan_routine)
  /\ WF_wlVars(wlanidt_connect_routine) /\ WF_wlVars(wlanidt_disconnect_routine)
  /\ SF_wlVars(ScanDone)

WlFairSpec == WlSpec /\ WlFairness

------------------------------------------------------------------------------
(***************************************************************************)
(* While the module is loaded, the request the driver holds is the one      *)
(* cfg80211 holds, and is not yet reported, or the callback that brings it  *)
(* is still running: wlanidt_scan_routine never reports a request that      *)
(* cfg80211 has freed after an error of wi_scan, or reports one twice.      *)
(***************************************************************************)
ScanRequestValid ==
  unload = "no" /\ scan_request # WlNULL => scan_request = rdev_scan_req /\ ~done

(***************************************************************************)
(* "Scan routine should be finished with cfg80211_scan_done() call": a scan  *)
(* that wi_scan accepted is reported, and cfg80211 can scan again, unless    *)
(* the module is unloaded.                                                  *)
(***************************************************************************)
ScansFinish == (scan_request # WlNULL) ~> (rdev_scan_req = WlNULL \/ unload # "no")

(***************************************************************************)
(* virtual_wifi_exit, "make sure that no work is queued": when the context   *)
(* is freed no work item is queued or running that would use it.            *)
(***************************************************************************)
NoWorkAfterFree == unload = "freed" => pending = {} /\ running = {}

\* Unloading a device nobody uses any more, and every order of callbacks and work
\* items before: the request reported is cfg80211's own, and no item outlives the context.
WlInv == WlTypeOK /\ ScanRequestValid /\ NoWorkAfterFree
==============================================================================
