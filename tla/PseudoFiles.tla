------------------------------ MODULE PseudoFiles ------------------------------
(***************************************************************************)
(* The show and store methods of kfsproc (procfs) and kfssys (sysfs), and  *)
(* the read method of kfsdebug (debugfs), called by several processes.     *)
(* Each takes the module's mutex, which a signal can interrupt.  A store   *)
(* parses the text straight into the global debug_level, and only then     *)
(* looks whether the value is allowed.                                     *)
(*                                                                         *)
(* A text is a number, or PfNoNumber for one that kstrtoint()/kstrtoul()   *)
(* refuse and leave the variable alone.                                    *)
(***************************************************************************)
EXTENDS Integers

CONSTANTS
  PfFiles,      \* a subset of {"procfs", "sysfs", "debugfs"}
  PfProcs,      \* the processes
  PfTexts,      \* the numbers that are written, some of them not allowed
  PfNoNumber,   \* a text that is not a number
  PfJiffies     \* bound: values of jiffies

ASSUME PfAssumption == "free" \notin PfProcs

VARIABLES
  pfFile,       \* the module this behaviour is about
  debug_level,  \* the global variable of procfs_if and sysfs_if
  config1,      \* gdrvctx->config1 of procfs_if, and config3 of debugfs_if
  jiffies,      \* the clock
  mtx,          \* the owner of the mutex, or "free"
  pfProc        \* per process: [at, method, text, prev, shown]

pfVars == <<pfFile, debug_level, config1, jiffies, mtx, pfProc>>

DEBUG_LEVEL_MIN == 0
DEBUG_LEVEL_MAX == 2
DEBUG_LEVEL_DEFAULT == DEBUG_LEVEL_MIN
Allowed == DEBUG_LEVEL_MIN .. DEBUG_LEVEL_MAX

Nothing == [at |-> "out", method |-> "none", text |-> 0, prev |-> 0, shown |-> 0]

PfInit ==
  /\ pfFile \in PfFiles
  /\ debug_level = 0 /\ config1 = 0 /\ jiffies = 0
  /\ mtx = "free"
  /\ pfProc = [p \in PfProcs |-> Nothing]

Methods ==
  CASE pfFile = "procfs" -> {"show_level", "store_level", "show_config1", "store_config1"}
    [] pfFile = "sysfs" -> {"show_level", "store_level"}
    [] pfFile = "debugfs" -> {"show_drvctx"}

-----------------------------------------------------------------------------
(* A method is called and waits for the mutex; a signal ends the wait. *)
Call(p) ==
  /\ pfProc[p].at = "out"
  /\ \E m \in Methods, x \in PfTexts \cup {PfNoNumber} :
       /\ m \in {"show_level", "show_config1", "show_drvctx"} => x = PfNoNumber
       /\ pfProc' = [pfProc EXCEPT ![p] = [Nothing EXCEPT !.at = "wait", !.method = m, !.text = x]]
  /\ UNCHANGED <<pfFile, debug_level, config1, jiffies, mtx>>

PfInterrupted(p) ==
  /\ pfProc[p].at = "wait"
  /\ pfProc' = [pfProc EXCEPT ![p] = Nothing]
  /\ UNCHANGED <<pfFile, debug_level, config1, jiffies, mtx>>

Locked(p) ==
  /\ pfProc[p].at = "wait" /\ mtx = "free"
  /\ mtx' = p
  /\ pfProc' = [pfProc EXCEPT ![p].at = "locked", ![p].prev = debug_level]
  /\ UNCHANGED <<pfFile, debug_level, config1, jiffies>>

Inside(p, file, m) == pfProc[p].at = "locked" /\ pfFile = file /\ pfProc[p].method = m

Unlock(p) == mtx' = "free" /\ pfProc' = [pfProc EXCEPT ![p] = Nothing]

Shows(p, v) == pfProc' = [pfProc EXCEPT ![p].at = "shown", ![p].shown = v]

(* count out of range or copy_from_user() failing: nothing is parsed *)
Refused(p) ==
  /\ pfProc[p].at = "locked" /\ pfProc[p].method \in {"store_level", "store_config1"}
  /\ Unlock(p)
  /\ UNCHANGED <<pfFile, debug_level, config1, jiffies>>

NotANumber(p) == pfProc[p].text = PfNoNumber

(* kstrtoint(buf, 0, &debug_level): the global changes before the check *)
Parse(p, file) ==
  /\ Inside(p, file, "store_level") /\ ~NotANumber(p)
  /\ debug_level' = pfProc[p].text
  /\ pfProc' = [pfProc EXCEPT ![p].at = "parsed"]
  /\ UNCHANGED <<pfFile, config1, jiffies, mtx>>

-----------------------------------------------------------------------------
(* procfs: a value that is not allowed resets the level, others go to config1 *)
myproc_write_debug_level(p) ==
  \/ Parse(p, "procfs")
  \/ /\ Inside(p, "procfs", "store_level") /\ NotANumber(p)
     /\ Unlock(p)
     /\ UNCHANGED <<pfFile, debug_level, config1, jiffies>>
  \/ /\ pfFile = "procfs" /\ pfProc[p].at = "parsed"
     /\ IF debug_level \in Allowed
          THEN config1' = debug_level /\ debug_level' = debug_level
          ELSE debug_level' = DEBUG_LEVEL_DEFAULT /\ config1' = config1
     /\ Unlock(p)
     /\ UNCHANGED <<pfFile, jiffies>>

proc_show_debug_level(p) ==
  /\ Inside(p, "procfs", "show_level")
  /\ Shows(p, debug_level)
  /\ UNCHANGED <<pfFile, debug_level, config1, jiffies, mtx>>

(* kstrtoul() refuses negative numbers *)
myproc_write_config1(p) ==
  /\ Inside(p, "procfs", "store_config1")
  /\ IF NotANumber(p) \/ pfProc[p].text < 0
       THEN UNCHANGED <<config1, debug_level>>
       ELSE config1' = pfProc[p].text /\ debug_level' = pfProc[p].text
  /\ Unlock(p)
  /\ UNCHANGED <<pfFile, jiffies>>

proc_show_config1(p) ==
  /\ Inside(p, "procfs", "show_config1")
  /\ Shows(p, config1)
  /\ UNCHANGED <<pfFile, debug_level, config1, jiffies, mtx>>

-----------------------------------------------------------------------------
(* sysfs: a value that is not allowed brings back the previous level *)
llkdsysfs_debug_level_store_KeepsBad(p) ==
  \/ Parse(p, "sysfs")
  \/ /\ Inside(p, "sysfs", "store_level") /\ NotANumber(p)
     /\ Unlock(p)
     /\ UNCHANGED <<pfFile, debug_level, config1, jiffies>>
  \/ /\ pfFile = "sysfs" /\ pfProc[p].at = "parsed"
     /\ debug_level' = IF debug_level > DEBUG_LEVEL_MAX THEN pfProc[p].prev ELSE debug_level
     /\ Unlock(p)
     /\ UNCHANGED <<pfFile, config1, jiffies>>

llkdsysfs_debug_level_store(p) ==
  \/ Parse(p, "sysfs")
  \/ /\ Inside(p, "sysfs", "store_level") /\ NotANumber(p)
     /\ Unlock(p)
     /\ UNCHANGED <<pfFile, debug_level, config1, jiffies>>
  \/ /\ pfFile = "sysfs" /\ pfProc[p].at = "parsed"
     /\ debug_level' = IF debug_level \in Allowed THEN debug_level ELSE pfProc[p].prev
     /\ Unlock(p)
     /\ UNCHANGED <<pfFile, config1, jiffies>>

llkdsysfs_debug_level_show(p) ==
  /\ Inside(p, "sysfs", "show_level")
  /\ Shows(p, debug_level)
  /\ UNCHANGED <<pfFile, debug_level, config1, jiffies, mtx>>

-----------------------------------------------------------------------------
(* debugfs: every read stamps config3 with the time, and shows it *)
dbgfs_show_drvctx(p) ==
  /\ Inside(p, "debugfs", "show_drvctx")
  /\ config1' = jiffies
  /\ Shows(p, jiffies)
  /\ UNCHANGED <<pfFile, debug_level, jiffies, mtx>>

Tick ==
  /\ pfFile = "debugfs" /\ jiffies < PfJiffies
  /\ jiffies' = jiffies + 1
  /\ UNCHANGED <<pfFile, debug_level, config1, mtx, pfProc>>

(* The text has been formatted: the mutex is dropped and the method returns *)
ShowEnds(p) ==
  /\ pfProc[p].at = "shown"
  /\ Unlock(p)
  /\ UNCHANGED <<pfFile, debug_level, config1, jiffies>>

PfNext ==
  \/ Tick
  \/ \E p \in PfProcs :
       \/ Call(p) \/ PfInterrupted(p) \/ Locked(p) \/ Refused(p) \/ ShowEnds(p)
       \/ myproc_write_debug_level(p) \/ proc_show_debug_level(p)
       \/ myproc_write_config1(p) \/ proc_show_config1(p)
       \/ llkdsysfs_debug_level_store(p) \/ llkdsysfs_debug_level_show(p)
       \/ dbgfs_show_drvctx(p)

PfSpec == PfInit /\ [][PfNext]_pfVars

-----------------------------------------------------------------------------
(***************************************************************************)
(* A process that reads llkdsysfs_debug_level always sees an allowed value, *)
(* although a store puts whatever it was given into the variable first.     *)
(***************************************************************************)
PfOnlyAllowedLevelsShown ==
  pfFile = "sysfs" =>
    \A p \in PfProcs : pfProc[p].at = "shown" => pfProc[p].shown \in Allowed

(***************************************************************************)
(* procfs_if: config1 is "treated as equivalent to 'debug level' of our     *)
(* driver": between calls the two agree, or the level is the default that a *)
(* refused write left.                                                      *)
(***************************************************************************)
PfConfigFollowsLevel ==
  pfFile = "procfs" /\ mtx = "free" => debug_level \in {config1, DEBUG_LEVEL_DEFAULT}

(* A value that is stored before it is checked is seen by nobody, and the two values
   that belong together change together. *)
PfInv == PfOnlyAllowedLevelsShown /\ PfConfigFollowsLevel
==============================================================================
