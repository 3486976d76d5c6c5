----------------------------- MODULE SecretDevices -----------------------------
(***************************************************************************)
(* The misc character drivers that keep a "secret", whose methods run      *)
(* concurrently in several processes.  kmisc has no locks.  ksync-mutex    *)
(* protects the secret and the statistics with one mutex; ksync-spin uses  *)
(* a spinlock, except around copy_to_user(), which may sleep and is done   *)
(* under a second lock, a mutex.                                           *)
(*                                                                         *)
(* A process opens the device, reads and writes, and closes it.  A secret  *)
(* is a number, which is also its length; a copy of it in or out takes two *)
(* steps, so that a copy made while another changes the secret is seen.    *)
(***************************************************************************)
EXTENDS Integers, FiniteSets

CONSTANTS
  SdDrivers,    \* a subset of {"rdwr", "mutex", "spin"}
  SdProcs,      \* the processes that use the device
  SdSecrets,    \* lengths of the secrets that are written
  SdOps         \* bound: methods each process calls

ASSUME SdAssumption ==
  /\ SdDrivers \subseteq {"rdwr", "mutex", "spin"}
  /\ IsFiniteSet(SdProcs) /\ "free" \notin SdProcs
  /\ SdSecrets \subseteq Nat

VARIABLES
  sdDriver,     \* the driver this behaviour is about
  ga, gb,       \* the counters of open files, protected by lock1
  oursecret,    \* [val, whole]: the stored secret; whole is FALSE while it changes
  tx, rx,       \* the statistics
  sdLocks,      \* the locks that are held: the owner of each, or "free"
  sdProc,       \* per process: where it is, and what it has read
  sdMoved       \* [got, sent]: what all reads returned and all writes stored, in bytes

sdVars == <<sdDriver, ga, gb, oursecret, tx, rx, sdLocks, sdProc, sdMoved>>

Idle == [at |-> "closed", len |-> 0, val |-> 0, tmp |-> 0, ops |-> 0]

SdInit ==
  /\ sdDriver \in SdDrivers
  /\ ga = 0 /\ gb = 1
  /\ oursecret = [val |-> 1, whole |-> TRUE]
  /\ tx = 0 /\ rx = 0
  /\ sdLocks = [l \in {"lock1", "lock", "spinlock", "mutex", "none"} |-> "free"]
  /\ sdProc = [p \in SdProcs |-> Idle]
  /\ sdMoved = [got |-> 0, sent |-> 0]

Goes(p, pc) == sdProc' = [sdProc EXCEPT ![p].at = pc]
Moves(p, from, to) == sdProc[p].at = from /\ Goes(p, to)
Takes(l, p) == sdLocks[l] = "free" /\ sdLocks' = [sdLocks EXCEPT ![l] = IF l = "none" THEN @ ELSE p]
Drops(l) == sdLocks' = [sdLocks EXCEPT ![l] = "free"]

-----------------------------------------------------------------------------
(***************************************************************************)
(* open and close: ga++; gb--; and back, under lock1 where there is one.    *)
(* The increment of ga is a load and a store.                               *)
(***************************************************************************)
OpenStarts(p, l) ==
  /\ sdProc[p].at = "closed" /\ sdProc[p].ops < SdOps
  /\ Takes(l, p)
  /\ sdProc' = [sdProc EXCEPT ![p].at = "opening", ![p].tmp = ga, ![p].ops = @ + 1]
  /\ UNCHANGED <<sdDriver, ga, gb, oursecret, tx, rx, sdMoved>>

OpenEnds(p, l) ==
  /\ Moves(p, "opening", "open")
  /\ ga' = sdProc[p].tmp + 1 /\ gb' = gb - 1
  /\ Drops(l)
  /\ UNCHANGED <<sdDriver, oursecret, tx, rx, sdMoved>>

CloseStarts(p, l) ==
  /\ sdProc[p].at = "open"
  /\ Takes(l, p)
  /\ sdProc' = [sdProc EXCEPT ![p].at = "closing", ![p].tmp = ga]
  /\ UNCHANGED <<sdDriver, ga, gb, oursecret, tx, rx, sdMoved>>

CloseEnds(p, l) ==
  /\ Moves(p, "closing", "closed")
  /\ ga' = sdProc[p].tmp - 1 /\ gb' = gb + 1
  /\ Drops(l)
  /\ UNCHANGED <<sdDriver, oursecret, tx, rx, sdMoved>>

(***************************************************************************)
(* read: the length in one critical section, the copy in the next.  Too     *)
(* small a buffer or an empty secret end the call in between.               *)
(***************************************************************************)
ReadLength(p, l) ==
  /\ sdProc[p].at = "open" /\ sdProc[p].ops < SdOps
  /\ sdLocks[l] = "free"
  /\ sdProc' = [sdProc EXCEPT ![p].at = "reading", ![p].len = oursecret.val, ![p].ops = @ + 1]
  /\ UNCHANGED <<sdDriver, ga, gb, oursecret, tx, rx, sdLocks, sdMoved>>

ReadRefused(p) ==
  /\ Moves(p, "reading", "open")
  /\ UNCHANGED <<sdDriver, ga, gb, oursecret, tx, rx, sdLocks, sdMoved>>

CopyOutStarts(p, l) ==
  /\ sdProc[p].at = "reading"
  /\ Takes(l, p)
  /\ sdProc' = [sdProc EXCEPT ![p].at = "copyout", ![p].tmp = tx]
  /\ UNCHANGED <<sdDriver, ga, gb, oursecret, tx, rx, sdMoved>>

CopyOutEnds(p, l) ==
  /\ sdProc[p].at = "copyout"
  /\ \/ /\ tx' = sdProc[p].tmp + sdProc[p].len
        /\ sdMoved' = [sdMoved EXCEPT !.got = @ + sdProc[p].len]
     \/ UNCHANGED <<tx, sdMoved>>                  \* copy_to_user() failed
  /\ Goes(p, "open")
  /\ Drops(l)
  /\ UNCHANGED <<sdDriver, ga, gb, oursecret, rx>>

(***************************************************************************)
(* write: the new secret is copied from the user before the lock is taken;  *)
(* that, or the allocation of the buffer for it, can fail.                  *)
(***************************************************************************)
CopyIn(p) ==
  /\ Moves(p, "open", "writing") /\ sdProc[p].ops < SdOps
  /\ UNCHANGED <<sdDriver, ga, gb, oursecret, tx, rx, sdLocks, sdMoved>>

WriteRefused(p) ==
  /\ sdProc[p].at = "writing"
  /\ sdProc' = [sdProc EXCEPT ![p].at = "open", ![p].ops = @ + 1]
  /\ UNCHANGED <<sdDriver, ga, gb, oursecret, tx, rx, sdLocks, sdMoved>>

StoreStarts(p, l) ==
  /\ sdProc[p].at = "writing"
  /\ Takes(l, p)
  /\ \E s \in SdSecrets :
       /\ oursecret' = [val |-> s, whole |-> FALSE]
       /\ sdProc' = [sdProc EXCEPT ![p].at = "storing", ![p].val = s, ![p].tmp = rx,
                                   ![p].ops = @ + 1]
  /\ UNCHANGED <<sdDriver, ga, gb, tx, rx, sdMoved>>

StoreEnds(p, l) ==
  /\ sdProc[p].at = "storing"
  /\ Goes(p, "open")
  /\ sdMoved' = [sdMoved EXCEPT !.sent = @ + sdProc[p].val]
  /\ oursecret' = [oursecret EXCEPT !.whole = TRUE]
  /\ rx' = sdProc[p].tmp + sdProc[p].val
  /\ Drops(l)
  /\ UNCHANGED <<sdDriver, ga, gb, tx>>

Open(p, l) == OpenStarts(p, l) \/ OpenEnds(p, l)
Close(p, l) == CloseStarts(p, l) \/ CloseEnds(p, l)
Read(p, state, copy) ==
  ReadLength(p, state) \/ ReadRefused(p) \/ CopyOutStarts(p, copy) \/ CopyOutEnds(p, copy)
Write(p, l) == CopyIn(p) \/ WriteRefused(p) \/ StoreStarts(p, l) \/ StoreEnds(p, l)

-----------------------------------------------------------------------------
(* The methods of the three drivers: the same steps under different locks *)
rdwr_open(p) == sdDriver = "rdwr" /\ Open(p, "none")
rdwr_read(p) == sdDriver = "rdwr" /\ Read(p, "none", "none")
rdwr_write(p) == sdDriver = "rdwr" /\ Write(p, "none")
rdwr_close(p) == sdDriver = "rdwr" /\ Close(p, "none")

mutexlock_open(p) == sdDriver = "mutex" /\ Open(p, "lock1")
mutexlock_read(p) == sdDriver = "mutex" /\ Read(p, "lock", "lock")
mutexlock_write(p) == sdDriver = "mutex" /\ Write(p, "lock")
mutexlock_close(p) == sdDriver = "mutex" /\ Close(p, "lock1")

spinlock_open(p) == sdDriver = "spin" /\ Open(p, "lock1")
spinlock_read_Unlocked(p) == sdDriver = "spin" /\ Read(p, "spinlock", "none")
spinlock_read(p) == sdDriver = "spin" /\ Read(p, "spinlock", "mutex")
spinlock_write(p) == sdDriver = "spin" /\ Write(p, "spinlock")
spinlock_close(p) == sdDriver = "spin" /\ Close(p, "lock1")

SdNext ==
  \E p \in SdProcs :
    \/ rdwr_open(p) \/ rdwr_read(p) \/ rdwr_write(p) \/ rdwr_close(p)
    \/ mutexlock_open(p) \/ mutexlock_read(p) \/ mutexlock_write(p) \/ mutexlock_close(p)
    \/ spinlock_open(p) \/ spinlock_read(p) \/ spinlock_write(p) \/ spinlock_close(p)

SdSpec == SdInit /\ [][SdNext]_sdVars

-----------------------------------------------------------------------------
IsOpen(p) == sdProc[p].at \notin {"closed", "opening"}

(***************************************************************************)
(* In the drivers with locks ga counts the open files and gb mirrors it,    *)
(* whenever no open or close is between its two accesses.                   *)
(***************************************************************************)
SdOpenFilesCounted ==
  sdDriver # "rdwr" /\ sdLocks["lock1"] = "free"
    => ga = Cardinality({p \in SdProcs : IsOpen(p)}) /\ gb = 1 - ga

(***************************************************************************)
(* The statistics are exact in both drivers with locks, although ksync-spin *)
(* updates tx under another lock than rx: tx is what the reads returned, rx *)
(* what the writes stored.                                                  *)
(***************************************************************************)
SdStatsExact ==
  sdDriver # "rdwr" => tx = sdMoved.got /\ rx = sdMoved.sent

(***************************************************************************)
(* With one mutex no reader copies the secret out while a writer replaces   *)
(* it.  (With the two locks of ksync-spin that can happen.)                 *)
(***************************************************************************)
SdCopiesExclude ==
  sdDriver = "mutex" /\ (\E p \in SdProcs : sdProc[p].at = "copyout") => oursecret.whole

(* With their locks, the drivers' counters and statistics are exact and no copy to a
   reader sees a secret that is being changed. *)
SdInv == SdOpenFilesCounted /\ SdStatsExact /\ SdCopiesExclude
==============================================================================
