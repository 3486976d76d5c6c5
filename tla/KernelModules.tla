----------------------------- MODULE KernelModules -----------------------------
(***************************************************************************)
(* Loading and unloading the repository's kernel modules.                  *)
(*                                                                         *)
(* The init function of a module is a list of calls that can fail, each    *)
(* with the goto label (or return) that its failure takes; what the labels *)
(* release, and what the exit function releases, are lists too.  insmod    *)
(* runs the init function, rmmod the exit function, and the module may be  *)
(* loaded again afterwards: a name that an earlier load left behind makes  *)
(* the call that registers it fail.  A resource through which other        *)
(* processes enter the module (a file, a device) is usable from the moment *)
(* it is registered until it is removed, while insmod or rmmod still run.  *)
(***************************************************************************)
EXTENDS Sequences, Naturals

CONSTANTS
  KlModules,    \* the modules that are tried
  KlMaxLoads    \* bound: how often insmod is tried

VARIABLES
  klModule,     \* the module this behaviour is about
  klPhase,      \* "unloaded", "init", "undo", "loaded" or "exit"
  klTodo,       \* the calls of the current phase that are still to be made
  klHeld,       \* what is allocated or registered
  klLoads       \* how often insmod was tried

klVars == <<klModule, klPhase, klTodo, klHeld, klLoads>>

(***************************************************************************)
(* A call that allocates or registers r; when it fails the releases listed *)
(* in undo follow and insmod fails.  When the failure is not reported the  *)
(* init function goes on with the calls in rest.                           *)
(***************************************************************************)
Try(r, undo) == [gets |-> {r}, aborts |-> TRUE, next |-> undo]
TryOr(r, rest) == [gets |-> {r}, aborts |-> FALSE, next |-> rest]

(* A release of one resource, and one that removes whatever is there of a set *)
KlFree(r) == [what |-> {r}, strict |-> TRUE]
Sweep(S) == [what |-> S, strict |-> FALSE]

-----------------------------------------------------------------------------
(* kfsproc: a directory, four files and the driver context three of them use *)
ProcTree == {"dir", "file1", "file2", "file3", "file4"}

procfs_if_init ==
  << Try("dir", <<>>),
     Try("file1", <<>>),
     Try("file2", <<Sweep(ProcTree)>>),
     Try("gdrvctx", <<Sweep(ProcTree)>>),
     Try("file3", <<KlFree("gdrvctx"), Sweep(ProcTree)>>),
     Try("file4", <<KlFree("gdrvctx"), Sweep(ProcTree)>>) >>

procfs_if_cleanup == << Sweep(ProcTree), KlFree("gdrvctx") >>

(* kfssys: a platform device and its three attribute files *)
sysfs_if_init ==
  << Try("platdev", <<>>),
     Try("debug_level", <<KlFree("platdev")>>),
     Try("pgoff", <<KlFree("debug_level"), KlFree("platdev")>>),
     Try("pressure", <<KlFree("pgoff"), KlFree("debug_level"), KlFree("platdev")>>) >>

sysfs_if_cleanup ==
  << KlFree("pressure"), KlFree("pgoff"), KlFree("debug_level"), KlFree("platdev") >>

(* kfsdebug: with cause_an_oops = 0, its default.  debugfs_create_dir() and   *)
(* debugfs_create_file() report failures with an error pointer, which the     *)
(* tests for NULL let pass; without the directory no file is made.            *)
DebugTree == {"dir", "drvctx_file", "level_file"}
DebugCtx == Try("gdrvctx", <<Sweep(DebugTree)>>)
DebugLevelFile == << TryOr("level_file", <<>>) >>

debugfs_if_init ==
  << TryOr("dir", <<DebugCtx>>), DebugCtx, TryOr("drvctx_file", DebugLevelFile) >>
    \o DebugLevelFile

debugfs_if_cleanup == << KlFree("gdrvctx"), Sweep(DebugTree) >>

(* kioctl and kchar-dev: one character device *)
ioctl_llkd_kdrv_init == << Try("chrdev", <<>>) >>
ioctl_llkd_kdrv_cleanup == << KlFree("chrdev") >>
init_module == << Try("chrdev", <<>>) >>
cleanup_module == << KlFree("chrdev") >>

(* kmem-kmalloc, kmem-vmalloc (kernels from 5.8 on) and kmem-allocpage *)
slab1_init == << Try("gkptr", <<>>), Try("ctx", <<KlFree("gkptr")>>) >>
slab1_exit == << KlFree("ctx"), KlFree("gkptr") >>

vmalloc_try_WrongLabel ==
  << Try("vptr_rndm", <<>>),
     Try("vptr_init", <<KlFree("vptr_rndm")>>),
     Try("kv", <<KlFree("vptr_init"), KlFree("vptr_rndm")>>),
     Try("kvarr", <<KlFree("vptr_init"), KlFree("vptr_rndm")>>) >>

vmalloc_try ==
  << Try("vptr_rndm", <<>>),
     Try("vptr_init", <<KlFree("vptr_rndm")>>),
     Try("kv", <<KlFree("vptr_init"), KlFree("vptr_rndm")>>),
     Try("kvarr", <<KlFree("kv"), KlFree("vptr_init"), KlFree("vptr_rndm")>>) >>

vmalloc1_exit == << KlFree("kvarr"), KlFree("kv"), KlFree("vptr_init"), KlFree("vptr_rndm") >>

bsa_alloc ==
  << Try("gptr1", <<>>),
     Try("gptr2", <<KlFree("gptr1")>>),
     Try("gptr3", <<KlFree("gptr2"), KlFree("gptr1")>>),
     Try("gptr4", <<KlFree("gptr3"), KlFree("gptr2"), KlFree("gptr1")>>),
     Try("gptr5", <<KlFree("gptr4"), KlFree("gptr3"), KlFree("gptr2"), KlFree("gptr1")>>) >>

lowlevel_mem_exit ==
  << KlFree("gptr5"), KlFree("gptr4"), KlFree("gptr3"), KlFree("gptr2"), KlFree("gptr1") >>

-----------------------------------------------------------------------------
(* kmisc, ksync-mutex and ksync-spin: the device is registered before the     *)
(* context that its methods use; the context belongs to the device (devm).    *)
MiscDevice == {"miscdev", "ctx"}

miscdrv_rdwr_init == << Try("miscdev", <<>>), Try("ctx", <<>>) >>
miscdrv_rdwr_exit == << Sweep(MiscDevice) >>
miscdrv_init_mutexlock == << Try("miscdev", <<>>), Try("ctx", <<>>) >>
miscdrv_exit_mutexlock == << Sweep(MiscDevice) >>
miscdrv_init_spinlock == << Try("miscdev", <<>>), Try("ctx", <<>>) >>
miscdrv_exit_spinlock == << Sweep(MiscDevice) >>

(* knet-if: the device structure is never freed *)
virtualNIC_init_module == << Try("netdev", <<>>), Try("registered", <<>>) >>
virtualNIC_cleanup == << KlFree("registered") >>

(* knetfilter: a hook whose operations cannot be allocated is left out, and *)
(* what the registration returns is not looked at.                          *)
BlockPort == << TryOr("port_ops", <<>>), TryOr("port_hook", <<>>) >>

nf_knetfilter_init == << TryOr("icmp_ops", BlockPort), TryOr("icmp_hook", BlockPort) >> \o BlockPort

nf_knetfilter_exit ==
  << Sweep({"icmp_hook"}), Sweep({"icmp_ops"}), Sweep({"port_hook"}), Sweep({"port_ops"}) >>

(* knetlink: one kernel socket *)
netlink_if_init == << Try("nlsock", <<>>) >>
netlink_if_exit == << KlFree("nlsock") >>

(* kthread: the reference taken with get_task_struct() is never given back *)
kthread_p_init == << [Try("kthread", <<>>) EXCEPT !.gets = {"kthread", "task_ref"}] >>
kthread_p_exit == << KlFree("kthread") >>

(* kwlan-if: the context, the wiphy and the network device *)
wlanidt_create_context ==
  << Try("context", <<>>),
     Try("wiphy", <<KlFree("context")>>),
     Try("wiphy_registered", <<KlFree("wiphy"), KlFree("context")>>),
     Try("ndev", <<KlFree("wiphy_registered"), KlFree("wiphy"), KlFree("context")>>),
     Try("ndev_registered",
         <<KlFree("ndev"), KlFree("wiphy_registered"), KlFree("wiphy"), KlFree("context")>>) >>

wlanidt_free ==
  << KlFree("ndev_registered"), KlFree("ndev"), KlFree("wiphy_registered"),
     KlFree("wiphy"), KlFree("context") >>

(* keth-if: two network devices *)
dummeth_init_module ==
  << Try("dev0", <<>>),
     Try("dev1", <<>>),
     Try("registered0", <<KlFree("dev0")>>),
     Try("registered1", <<KlFree("dev0"), KlFree("dev1")>>) >>

dummeth_cleanup_module ==
  << KlFree("registered0"), KlFree("dev0"), KlFree("registered1"), KlFree("dev1") >>

-----------------------------------------------------------------------------
InitCalls(m) ==
  CASE m = "procfs_if" -> procfs_if_init
    [] m = "sysfs_if" -> sysfs_if_init
    [] m = "debugfs_if" -> debugfs_if_init
    [] m = "ioctl_llkd_kdrv" -> ioctl_llkd_kdrv_init
    [] m = "char_dev_driver" -> init_module
    [] m = "slab1" -> slab1_init
    [] m = "vmalloc1" -> vmalloc_try
    [] m = "lowlevel_mem" -> bsa_alloc
    [] m = "miscdrv_rdwr" -> miscdrv_rdwr_init
    [] m = "mutexlock_misc" -> miscdrv_init_mutexlock
    [] m = "spinlock_misc" -> miscdrv_init_spinlock
    [] m = "net_if_driver" -> virtualNIC_init_module
    [] m = "knetfilter" -> nf_knetfilter_init
    [] m = "netlink_if" -> netlink_if_init
    [] m = "kthread_p" -> kthread_p_init
    [] m = "wlan" -> wlanidt_create_context
    [] m = "dummeth" -> dummeth_init_module

ExitCalls(m) ==
  CASE m = "procfs_if" -> procfs_if_cleanup
    [] m = "sysfs_if" -> sysfs_if_cleanup
    [] m = "debugfs_if" -> debugfs_if_cleanup
    [] m = "ioctl_llkd_kdrv" -> ioctl_llkd_kdrv_cleanup
    [] m = "char_dev_driver" -> cleanup_module
    [] m = "slab1" -> slab1_exit
    [] m = "vmalloc1" -> vmalloc1_exit
    [] m = "lowlevel_mem" -> lowlevel_mem_exit
    [] m = "miscdrv_rdwr" -> miscdrv_rdwr_exit
    [] m = "mutexlock_misc" -> miscdrv_exit_mutexlock
    [] m = "spinlock_misc" -> miscdrv_exit_spinlock
    [] m = "net_if_driver" -> virtualNIC_cleanup
    [] m = "knetfilter" -> nf_knetfilter_exit
    [] m = "netlink_if" -> netlink_if_exit
    [] m = "kthread_p" -> kthread_p_exit
    [] m = "wlan" -> wlanidt_free
    [] m = "dummeth" -> dummeth_cleanup_module

(* Two loads of these cannot hold a resource of the same name twice; memory can *)
Named == {"dir", "platdev", "chrdev", "miscdev", "nlsock"}

(***************************************************************************)
(* The actions: insmod and rmmod, and the calls they make one by one.       *)
(***************************************************************************)
KlInit ==
  /\ klModule \in KlModules
  /\ klPhase = "unloaded" /\ klTodo = <<>> /\ klHeld = {} /\ klLoads = 0

Insmod ==
  /\ klPhase = "unloaded" /\ klLoads < KlMaxLoads
  /\ klPhase' = "init" /\ klTodo' = InitCalls(klModule) /\ klLoads' = klLoads + 1
  /\ UNCHANGED <<klModule, klHeld>>

CallSucceeds ==
  /\ klPhase = "init" /\ klTodo # <<>>
  /\ Head(klTodo).gets \cap klHeld \cap Named = {}
  /\ klHeld' = klHeld \cup Head(klTodo).gets
  /\ klTodo' = Tail(klTodo)
  /\ UNCHANGED <<klModule, klPhase, klLoads>>

CallFails ==
  /\ klPhase = "init" /\ klTodo # <<>>
  /\ klTodo' = Head(klTodo).next
  /\ klPhase' = IF Head(klTodo).aborts THEN "undo" ELSE "init"
  /\ UNCHANGED <<klModule, klHeld, klLoads>>

Release ==
  /\ klPhase \in {"undo", "exit"} /\ klTodo # <<>>
  /\ klHeld' = klHeld \ Head(klTodo).what
  /\ klTodo' = Tail(klTodo)
  /\ UNCHANGED <<klModule, klPhase, klLoads>>

PhaseEnds ==
  /\ klPhase \in {"init", "undo", "exit"} /\ klTodo = <<>>
  /\ klPhase' = IF klPhase = "init" THEN "loaded" ELSE "unloaded"
  /\ UNCHANGED <<klModule, klTodo, klHeld, klLoads>>

Rmmod ==
  /\ klPhase = "loaded"
  /\ klPhase' = "exit" /\ klTodo' = ExitCalls(klModule)
  /\ UNCHANGED <<klModule, klHeld, klLoads>>

KlNext == Insmod \/ CallSucceeds \/ CallFails \/ Release \/ PhaseEnds \/ Rmmod

KlSpec == KlInit /\ [][KlNext]_klVars

-----------------------------------------------------------------------------
(***************************************************************************)
(* What a module leaves behind when it is not loaded: six of them skip a    *)
(* release on an error path (kfsproc: procfs_if.c:303; the three misc       *)
(* devices return -ENOMEM with the device registered; keth-if: core.c:675   *)
(* and 695) or never release (knet-if, kthread).                            *)
(***************************************************************************)
Leftover(m) ==
  CASE m = "procfs_if" -> {"dir"}
    [] m \in {"miscdrv_rdwr", "mutexlock_misc", "spinlock_misc"} -> {"miscdev"}
    [] m = "net_if_driver" -> {"netdev"}
    [] m = "kthread_p" -> {"task_ref"}
    [] m = "dummeth" -> {"dev0", "dev1", "registered0"}
    [] OTHER -> {}

(***************************************************************************)
(* However often a module is loaded, whichever call of its init function    *)
(* fails, and whether or not it was unloaded in between: when it is not     *)
(* loaded nothing of it is left but what Leftover names, and for ten of the *)
(* seventeen modules that is nothing.                                       *)
(***************************************************************************)
KlUnloadedHoldsNothing == klPhase = "unloaded" => klHeld \subseteq Leftover(klModule)

(***************************************************************************)
(* An error path or exit function releases only what is there to release:   *)
(* no kfree, unregister or remove of something that was never made or is    *)
(* already gone.                                                            *)
(***************************************************************************)
KlReleasesWhatItHolds ==
  klPhase \in {"undo", "exit"} /\ klTodo # <<>> /\ Head(klTodo).strict
    => Head(klTodo).what \subseteq klHeld

(* The files and devices of each module, and what a call through them uses *)
Uses(m) ==
  CASE m = "sysfs_if" -> [e \in {"debug_level", "pgoff", "pressure"} |-> {"platdev"}]
    [] m = "procfs_if" -> [e \in {"file1", "file3", "file4"} |-> {"gdrvctx"}]
    [] m = "debugfs_if" -> [e \in {"drvctx_file"} |-> {"gdrvctx"}]
    [] m \in {"miscdrv_rdwr", "mutexlock_misc", "spinlock_misc"}
         -> [e \in {"miscdev"} |-> {"ctx"}]
    [] m = "wlan" -> [e \in {"wiphy_registered", "ndev_registered"} |->
                        {"context", "wiphy"} \cup
                        (IF e = "ndev_registered" THEN {"ndev"} ELSE {})]
    [] m = "knetfilter" -> [e \in {"icmp_hook", "port_hook"} |->
                              IF e = "icmp_hook" THEN {"icmp_ops"} ELSE {"port_ops"}]
    [] m = "dummeth" -> [e \in {"registered0", "registered1"} |-> {"dev0", "dev1"}]
    [] OTHER -> [e \in {} |-> {}]

(***************************************************************************)
(* Whatever call can reach the module finds what it uses: an entry point is *)
(* registered after, and removed before, the data its methods dereference.  *)
(* The drivers that publish an entry point first (the misc devices, kfsproc *)
(* with its first file), free first (kfsdebug, the error path of kfsproc)   *)
(* or free a registered device (keth-if) are left out here: in them a call  *)
(* can come before insmod has set up, or after rmmod has freed, the data.    *)
(***************************************************************************)
Backed(m) == \A e \in DOMAIN Uses(m) \cap klHeld : Uses(m)[e] \subseteq klHeld
KlEntriesBacked == klModule \in {"sysfs_if", "wlan", "knetfilter"} => Backed(klModule)

(* Whichever call of an init function fails and however often a module is loaded: it
   releases what it holds, nothing else, all of it, and nothing that can still be reached. *)
KlInv == KlUnloadedHoldsNothing /\ KlReleasesWhatItHolds /\ KlEntriesBacked
==============================================================================
