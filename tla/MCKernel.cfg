SPECIFICATION KernelSpec
CONSTANTS
  KlModules = {"procfs_if","sysfs_if","debugfs_if","ioctl_llkd_kdrv","char_dev_driver","slab1","vmalloc1","lowlevel_mem","miscdrv_rdwr","mutexlock_misc","spinlock_misc","net_if_driver","knetfilter","netlink_if","kthread_p","wlan","dummeth"}
  KlMaxLoads = 2
  SdDrivers = {"rdwr","mutex","spin"}
  SdProcs = {"p1","p2"}
  SdSecrets = {1,2}
  SdOps = 2
  PfFiles = {"procfs","sysfs","debugfs"}
  PfProcs = {"p1","p2"}
  PfTexts <- MCTexts
  PfNoNumber = 99
  PfJiffies = 3
  RcNodes = 12
  DwModules = {"tasklet", "timer", "workqueue", "kthread"}
  DwCpus = 1
  DwPresses = 4
  Requests = {r1, r2}
  MayUnload = TRUE
  Quiet = TRUE
  WlNULL = NULL
  PoolSize = 2
  Budget = 2
  Lockup = 0
  NCpus = 1
  Senders = {0, 1}
  MaxTimeouts = 1
  NULL = NULL
INVARIANTS
  
  
  PfInv
  DwNothingRunsAfterUnload
  WlInv
  OneCpuInv
PROPERTIES
  RcReclaimedInTime
  DwProgress
  ScansFinish
  OneCpuProgress
