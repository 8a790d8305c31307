# CMP 40HX unlock: verification

TLA+ models of the programs of this repository, checked with TLC and, where a
theorem says so, proved with TLAPS for every value of the constants.  The
programs unlock a CMP 40HX mining GPU.  An EFI application (`unlock40x`) finds the
card, runs the unlock on it, resizes its BAR1 and starts Windows.
`40HXInstaller` puts that application on the ESP, sets the registry and the
autostart up, and at every logon runs a "Gen2 session" that trains the PCIe link
to 5 GT/s through two temporary kernel drivers, one of which is WinRing0;
`40HXCheck` diagnoses; `40HXUninstaller` takes all of it away.

The code has hardly a line that two threads of one process share.  Its
difficulty is elsewhere: several *processes* work on one service control manager,
one driver, one root port and one ESP, each of their steps is a call that may
fail, any of them may be killed, and what they leave behind is found by the next
run, or by the next boot; and the EFI application talks to hardware whose answers
it cannot rely on and must get the machine into Windows all the same.  The
models are about that.

Paths below are relative to `src/windows-v3.0/tools/`; `v70.c` is
`unlock40x/unlock40x_v70.c`, and WinRing0 is in
`../40HX_Gen2_Windows/source/WinRing0-master/`.

## 1. Inventory

### Components that are modelled

**Temporary drivers of a Gen2 session** (`inst40hx/main.go`, 1014-1062, 1194-1480 and
1831-1897; `40hxcore/config.go`).  *State*: per driver the service (absent,
stopped, running, stopping), the mark for deletion, the file in `System32\drivers`
and who has the device open.  *Operations*: `gen2AcquireSingleInstance`,
`ensureSvcLoaded` for each driver (stat, query, redeploy, create, start, one
retry after delete), `tsOpen` / `openWinRing0`, the link work, the deferred
closes, `cleanupByovd` (gate on strategy and on the ThrottleStop application,
stop, delete, remove the file), release.  *Shares* the services and files with
every other session and with 40HXCheck.  *Hard*: every `sc.exe` call of one
process can fall between two of another; a stop is only pending while somebody
has the device open; a service marked for deletion can neither be started nor
created; the mutex that should serialise lets every session in (finding 1); the
user may start the ThrottleStop application, which owns a driver of the same name, at
any moment.  *Correct if*: only an overlap takes a driver away from a session or
leaves something of it, the user's own ThrottleStop keeps its driver, and nothing
remains loaded at the end.

**Drivers of 40HXCheck** (`check40x/main.go` 87-180, 467-481, 700-720;
`40hxcore/state.go`).  Loads, reads and unloads the same two drivers, takes no
mutex, remembers in *one* flag whether it brought *any* of them up.

**Service control manager, device handles, driver files** (external).  What
`sc create/start/stop/delete`, `CreateFile` on a device and `os.Remove` do, as far
as the tools rely on it.

**Link work, retry task, guard** (`inst40hx/main.go` 1262-1827).  *State*: link-
disable bit of the root port, target speed, link speed, whether the display
driver has lost the GPU, the armed retry task and its depth, the session's place
in its retrain loops.  *Operations*: find, target, retrain pulse (a read and a
write of `LNKCTL`), measure, `gen2HardFallback` with its two link disables and the
PnP restart, reopening the drivers, `gen2VerdictHard` / `gen2Finish`,
`scheduleGen2Retry` / `deleteGen2Retry`, `residentGuard`.  *Hard*: a
read-modify-write on a register shared by sessions that nothing keeps apart; a session
that fails half-way through taking the link down, or whose PnP restart fails; sessions
that arm each other through one task.

**Installation and removal of what boots** (`inst40hx/main.go` 275-587, 623-830,
1064-1109, 1915-1983; `40hxcore/uninstall_ops.go`, `40hxcore/probe.go`;
`uninstall40x/main.go`).  *State*: `\EFI\40HXUnlock\unlock40x.efi`, the fallback
slot `\EFI\Boot\bootx64.efi`, its backup, the firmware boot entries and their
order, `EnableGpuFirmware`.  *Operations*: `deployEspEfi` with `writeVerified`,
`setupBootEntry` (four `bcdedit` calls and an undo), `verifyBootEntry`,
`UninstallBootEntry`, `UninstallEspEfi`, `UninstallGspKey`, `CheckLeftover`.
*Hard*: the loader of the machine is renamed, its place rewritten, and much later
put back by another program of another release; every call in between may fail or
be the last one.

**PCI discovery and BAR set-up of the EFI application** (`v70.c` 786-817, 6292-6496,
6604-6668, 6911-6967).  *State*: the root bridge and the address layout in use, the
card's address, the bridge chosen for the resize.  *Operations*: `u40x_find_gpu`
(every root bridge with two layouts, then the ports), `u40x_enable_bar`, `rb_collect`,
`rebar_find_bridge`, the scan of `rebar_window_conflicts`.  *Hard*: a firmware that
decodes the other layout answers for another device; what was found is valid only
with the layout it was found with; the card is looked for through every root bridge, what
is above it through the first eight.

**Time, buffers, page table, meta data** (`v70.c` 958-1004, 1387-1425, 4484-4575,
6497-6551, 7394-7428).  *Operations*: `set_gpu_time`, `alloc_fwsec_buffer`,
`u40x_build_radix`, `build_wpr_meta`.  *Hard*: alignments and roundings that fit only
together, for images of any size.

**Unlock sequence and start of Windows** (`v70.c` 7313-7597 and what it calls).
*State*: where `efi_main` is, the SEC2 engine (running, selected core, mailbox, a
register block that takes no writes any more), what runs on the GSP, the timer of
the card, the volumes of the machine and their loaders.  *Operations*: stages [1] to
[11] with every bounded wait, three attempts to run the booter (through ports, through
ports after a reset, by DMA), the clean-up of SEC2, the chain-load ladder.  *Hard*: no
answer of the card is in the code; three ways to fail must not leave the engine busy
under the next attempt, the resize or Windows; the machine must reach Windows
whatever happens.

**BAR1 resize** (`v70.c` 6558-7311).  *State*: the registers of GPU and bridge (BAR1,
BAR3, resize control, two vendor registers, memory decode, the three registers of the
prefetchable window), the snapshot taken at the start, the plan.  *Operations*:
`rebar_choose_window`, `u40x_rebar_try`, `u40x_rebar_revert`.  *Hard*: a window in three
registers cannot be written at once; six checks fail at six depths into one roll-back;
base bits below the size of a BAR read as zero.

**Life of the WinRing0 driver** (`WinRing0Dll/OlsDll.cpp`, `OlsApiInit.h`, `Driver.cpp`;
`WinRing0Sys/OpenLibSys.c`: entry, create, close, unload).  *State*: service, mark for
deletion, handles of the device and leaked handles of the service, the `refCount` of the
driver.  *Operations*: `InitializeOls` (four attempts of open, remove, create, start,
open), `DeinitializeOls` (ask the count, close, remove if it was one).  *Hard*: the last
user is found by a number that is read before the handle is closed and changed without
a lock.

**Calls of the WinRing0 library** (`OlsApi.cpp`, `OpenLibSys.c`, `WinRing0Vxd/OpenLS.c`).
*State*: affinity masks of the process and its threads, the place of a PCI search, the
highest bus number.  *Operations*: MSR, PMC (refused on Windows 9x), CPUID, TSC, HLT with
their `Tx` and `Px` forms, I/O ports, PCI configuration reads and writes, the two searches; both
drivers' checks of a request.  *Hard*: a mask of the process is read, set and put back by
each of several threads; Windows 9x serves a request in pieces; a bus number in a byte.

### Components that are not modelled, and why

| Component | Why |
|---|---|
| autostart: logon task, Run key, GSP task (`setRunKey`, `setupGen2Task`, `UninstallTasks`) | one call of `schtasks` or the registry each; that they start sessions is in `Gen2Link` and `ByovdDrivers` |
| policy, driver states, status file (`config.go`, `drvstate.go`, `state.go`, `service.go`) | pure functions and single writes with no protocol between them; the clamps enter the models through their constants |
| GUI flag and policy page (`gui.go`) | presentation; what `installSelected` does to the ESP is in `Deployment`, a policy is fixed during a run |
| register access (`regs.go`, `tsdrv.go`) | address arithmetic; `Gen2Link` sees reads and writes |
| power, Defender, antivirus, GSP lookup, argument quoting | one external call each, no state of their own; the quoting has a test of its own |
| firmware images and register values of the unlock (`v70.c`) | data; what the card does with them is not in the code, so `EfiBoot` lets it do anything its registers can show |
| WinRing0: physical memory and version calls, test program, samples | single requests and constants (the former compiled out); third-party dialogs |
| build scripts, batch files, documents | nothing to model; the documents were read for what they promise |

### How the components interact

* Sessions and 40HXCheck meet in the service control manager (`DriverScm`), through
  handles that make a stop pending.  Clients of `WinRing0.dll` and the tools, which open
  the device without that library, meet in the driver's reference count (`WinRing`).
* Sessions meet each other on the root port and in the retry task (the mutex keeps none
  out); the guard and the task scheduler start new ones.
* The installer and the uninstaller meet on the ESP and in the firmware's boot
  entries, weeks apart; the EFI application boots from what they leave.
* In the EFI application, `EfiBoot` contains the resize step by step (it extends `Rebar`);
  `PciScan` says which bridge the resize gets and which windows it can know of, and
  `FwMemory` what the unlock puts into memory.

The hazards, with the line where each bites and the properties that would catch
it, are in `PROJECT.json`.

## 2. The modules

| Module | Extends | What it is |
|---|---|---|
| `DriverScm` | | the service control manager, device handles and driver files (external) |
| `ByovdDrivers` | `DriverScm` | Gen2 sessions and 40HXCheck around their two drivers |
| `Gen2Link` | | link work, retry task, guard |
| `LoaderSwap` | | abstract: a loader is set aside whole and given up only once it is back |
| `Deployment` | instantiates `LoaderSwap` | ESP files, boot entries, GSP value |
| `Rebar` | | the BAR1 transaction |
| `EfiBoot` | `Rebar` | one boot: unlock attempts, resize, start of Windows |
| `PciScan` | | the card, its BAR0 and its bridge on the PCI bus |
| `FwMemory` | `PciScan` | time, buffers, page table, map of the card's memory |
| `WinRing` | | the WinRing0 driver under several clients |
| `OlsCalls` | | calls of the WinRing0 library down to the hardware |
| `MC...` | the module each checks | values for the constants |
| `..._proofs` | the module each proves about, `TLAPS` | theorems |

### ByovdDrivers

One action per external call.  `pc[p]` says which call comes next; `cur[p]` is the
driver the loops over `{ThrottleStop, WinRing0}` are at; `att[p]` the attempt of
`ensureSvcLoaded`; `held[p]` what `CreateMutex` returned (`owner`, `bypass`: an
error although the mutex exists, `denied`: a limited user).  `Acquire` and
`AcquireBypass` are the two outcomes of `gen2AcquireSingleInstance`: `windows.CreateMutex`
returns `ERROR_ALREADY_EXISTS` as an error next to the handle, and `main.go:1834` lets the
session run on *any* error, so the branch that would skip (1839) is never taken.
`Stat` .. `RetryDelete` are `ensureSvcLoaded`;
`OpenTs`, `OpenWr` the opens, where a failing `OpenWr` goes to the clean-up
*without* the close that has not been deferred yet; `Work`, `ReopenClose`,
`Reopen`, `Tail` the link work as far as handles are concerned; `Close`, `Gate`,
`Stop`, `Drop`, `Remove`, `Release` the deferred functions in their order.
`CheckBegin` .. `CheckClose` are 40HXCheck.  `End` closes the handles of a process
that exits or is killed, as the kernel does.  `Antivirus` takes driver files away, and
`AppStarts` is the user starting the ThrottleStop application: it finds its driver running
or brings up its own, and `Gate`, which samples the process list, is a step apart from the
`Stop` that follows.  The application's own handle is not modelled (its driver is always
taken to be stopped at once), nor that it quits; `RetryDelete` of a session that saw the
driver not running may mark the application's driver for deletion.

History variables, which no action reads, say what a property has to except.  `met`: elevated
processes that were active beside another elevated one.  `late`: processes that looked
for the application before it was started and are not through with their clean-up.
`orphaned`: drivers that have been running ever since an elevated process was killed.

### Gen2Link

Register values are reduced to what decides: the link-disable bit (`dis`), a
target speed that is Gen2 or not (`tls`), a speed (`speed`, which drifts with load
and reads as nothing while the link is disabled).  `stage` is the loop a session is
in (retrain, hard fall-back, GPU alone), `round` and `half` its place in it, `ctl`
the link-disable bit as `Pulse` read it and `Modify` writes it back.  `lost` is set
by the link disable and cleared by a PnP restart that works; one that fails leaves the GPU as
it was or switched off, and the session goes on in either case (`Restart`, `Recover`).  `task`
is the depth of the one retry task; `Fire` starts it, or loses it if that session still runs.
`resident`, `autoHard`, `root` are chosen at the start: strategy, option, and whether there
is a root port the code can drive.  No mutex keeps a session out: `Find` ends early or goes on.
The guard (`GuardRepairs`) may run a session at any time: it does so whenever it does not
read a target speed of 2, and what it reads also depends on drivers that come and go.

The history: since a restart last gave the GPU back, `orphan` says that a session was killed
on its way from a link disable to its restart, `echoed` that a retrain pulse read the port
while the link was disabled; `stuck` that the last restart failed.

### Deployment

`file` holds the three files, each empty, Windows' loader, some release of the
EFI, or torn; `entry[g]` says how far a boot entry is set up; `top` what the
firmware tries first, and `behind` the tools' entry that is next if Windows Boot Manager is
the first.  `Verify` reads the order as the code does: the name `{bootmgr}` is no GUID and is
passed over, so that `SeemsFirst` is the second entry then.  Writing a file is two steps, truncate and fill.  Every step
of a tool may fail (`Trouble`), or be the last one (`Kill`).  `told` is what the tool
reported.  History variables say what a property has to exclude: `bare` (the user
deployed the EFI from the component page and left GSP off), `stuck` (an undo
failed), `blind` (a file in or beside the slot was there and an error made an installation
take it for absent), `missed` (the last look for leftovers passed over a file that is there,
because the ESP could not be mounted or a look failed; `CheckLeftover` reports nothing then).
`Repair` is Windows writing its loader to the slot; loaders of Windows are not told apart, so
that the models say nothing of a backup older than the slot.  `Reorder` is the user moving
entries in the firmware.  `SwapSpec` is `LoaderSwap` with the slot and its backup: whole steps
of several tools, of releases that know nothing of each other, look like one exchange of the
loader.  It holds until a tool was `blind`, and implies `OriginalSurvives`: the loader is in the
slot or in the backup.

### Rebar and EfiBoot

`Rebar` is one register write per step; `pc` names the register, or the check, that
comes next.  `Written` is the hardware: a base register keeps no bits below the size of
its BAR.  `Acceptable`, `Choices` and `Choose` are `rebar_choose_window`.  Each check
of `u40x_rebar_try` may fail, which leads to the first write of the roll-back.
Platforms (size of BAR3, memory map, windows of other bridges, stock window) are
chosen at the start.

`EfiBoot` adds `stage`, the place in `efi_main`, and the card.  Every bounded wait is
`Await`: the condition, or `Polls` turns without it, leads on.  What is read of the card
is nondeterministic; what the card does on its own is `EngineRuns` (the code on SEC2
halts, writes its result, opens registers, unlocks the card, or leaves a register block
that takes no writes, `wedged`) and `Tick`, its timer.  `sec2.core` says whether a core
of SEC2 has been selected since the last reset, `sec2.mine` whether the engine was
started by this application since then, `sec2.due` whether the clean-up has not been written
since the last start.  `attempt` is `direct` (booter loaded through
ports without a reset), `reset` or `dma`.  The ladder is `ChainOwn`, `ChainVolume`,
`ChainNothing`, `StartLoader`.

### PciScan and FwMemory

An address of configuration space is `Encode`d with one of two layouts and `Decode`d by
a root bridge with the one its firmware uses; `Reach` is the function that answers.
`Scanned` is what the three nested loops come across, so that one pass of
`u40x_find_gpu_pass` is one step: `Hit`, or `Miss`, which goes on to the next layout,
root bridge, or the ports.  `FindBridge` is `rebar_find_bridge`, and `Checked` the
addresses `rebar_window_conflicts` can know of: those of bridges that decode memory.  The
loops of both end at the bus of the card and go over `Roots`, of which there are no more than
`MaxRoots` (8 in the code): `rb_collect` stops there, while `Miss` tries every root bridge.
That `rb_collect` gets the same list of handles as `u40x_find_gpu` did is assumed.

`FwMemory` goes on where `u40x_enable_bar` ends.  `Allocate` asks for the six buffers
one by one, in the places `alloc_fwsec_buffer` tries (a series that moves on, three
fixed ones, below 4 GiB), builds the page table and, last, the map of the card's
memory.  The reference definitions are in the properties: `CivilDays` computes days by
400-year cycles where the code adds years and months; `Walk` follows the table as the
GSP does.

### WinRing

`pc` of a client is its place in `InitializeOls` or `DeinitializeOls`.  The service is
absent, stopped, running or stopping; a marked one disappears once its driver is out and
no process has a handle of the service open (`pins`: `IsSystemInstallDriver` leaks
one).  Create and close requests are two steps each, since `refCount` is read and
written without a lock (`irp` is the value read).  A tool opens the device without the
library.  A library that lacks a function is loaded and never called (`AllFunctions`), and a
driver file on a share counts as missing (`FileInPlace`).  An open may fail although the
driver runs: the first one of an attempt leads to a removal, the one after the start
(`OlsDll.cpp:183-187`) does not.

`disturbed`, `raced`, `held`, `alone`, `used` are history.  `disturbed`: the driver was left to
nobody who removes it.  It was there before the first process; or a client was killed in a
call or with the device open; or one counted others, each of them a tool or a client that had
counted already; or a last attempt gave up with the driver running.  `raced`: two requests
overlapped since the driver was loaded.  `held[p]`: whose open was complete when client `p`
counted, and who has not closed since.

### OlsCalls

A request carries sizes and places instead of values, and `Served` says whether the
driver in use passes it on (`BufferSizeCheck` in the one for Windows NT, hardly anything in
the one for Windows 9x, which was built without PMC reads).  A call goes `pin`, `run` (or `search` bus by bus, or `pieces`
on Windows 9x), `restore`, `returned`.  `able` are the capabilities the client found.

## 3. The runs

| Run | Instance | Question and answer |
|---|---|---|
| `session` | one elevated Gen2 process (may be killed) and one limited, each calls again and again; the ThrottleStop application starts at any moment | no driver is pulled from under the elevated session, its clean-up is complete: hold |
| `shipped` | two elevated Gen2 processes behind the mutex as it is | they overlap freely: only an overlap takes a driver away or leaves something of it, no driver is loaded once both have ended, and every session ends |
| `diagnose` | 40HXCheck against a Gen2 session that may be killed; the application starts at any moment | the application's driver is stopped only by a clean-up that looked before the start, only a kill leaves a driver loaded, a pending unload completes |
| `shipped_mutex` | as `shipped` | **violated**: `ExclusiveSession` (finding 1) |
| `residue` | one session alone | **violated**: `NoResidue` (finding 2) |
| `link` | logon and retry sessions that overlap freely; two starts, one kill or driver reload, PnP restarts that fail | link and GPU come back but for a killed session, a pulse that read the disabled port, or a failed restart; retries end |
| `deploy` | two releases, any sequence of installations and removals, one at a time; two failing calls, a kill, a repair by Windows | slot and backup implement `LoaderSwap` until a file is taken for absent, a removal that lists nothing has put the loader back unless it passed over a file, what is reported verified is first or next to Windows Boot Manager, failures leave no halves, GSP covers every bootable unlock while no call fails |
| `deploy_uninstall` | no failures | **violated**: `UninstallRemovesUnlock` (finding 3) |
| `boot` | any answer of the card in three attempts; two volumes with any loaders; the resize on three stock windows, three sizes of BAR3, four memory maps, four sets of foreign windows | code is put on SEC2 only when card and engine are ready, no stale success, the clean-up of SEC2 is written before the hand-over and works if the block takes writes, Windows unless there is none, every boot ends; the window is free at every step, a roll-back restores all but low bits of BAR1 |
| `firmware` | the card on seven buses, six sets of root bridges with two layouts, at most two of them looked at by the resize, a second root bus on either side; 171 dates; seven memory maps, four image sizes | the card is found, its bridge if it is on a root bridge looked at, no window that is decoded is missed with all root buses looked at and below the card; the clock is never ahead, the table reaches every page, the map fits |
| `winring` | two clients, one tool, left-over services, kills, opens that fail, a driver file missing, blocked or fine, a library whole or partial | the count is the number of users; the last one to go leaves nothing but what was left to nobody (`disturbed`); a lone client cleans up after others; nobody whom a client counted loses the driver to it; every call returns |
| `olscalls` | two threads; three drivers; every function of the library; every small bus | calls run where asked, masks come back, effect exactly if TRUE, searches find the right one, every call returns |

### Bounds, and why they are enough

* *Processes.* Two elevated sessions exhibit every pair of interleaved calls; the
  limited process adds the only other way through the mutex.  `DriversStayLoaded`
  and its neighbours are proved for any number.  The three runs are kept apart: two sessions
  *and* a check, or kills and returns of both sessions, are out of reach in the time a run has.
* *Link.* `Rounds = 2` stands for 6 rounds of the loops, `SecondDisable = 1`: a round at the
  root port, one at the GPU, the second link disable, and a round after it.  Sessions overlap at
  every step, which makes a third round cost too much; the two invariants are proved for any
  number of rounds and sessions.  `RetryCount = 2` lets a retry arm another one.
  `Starts = 2` (two logons one after the other), `Mishaps = 1`; the retry session is the other one.
* *Deployment.* `Guids = 2`: two entries are the least that makes "the first of several"
  differ from "the only one"; `bcdedit /copy` fails when they are used up.  `Troubles = 2` lets
  an undo fail after the failure it undoes.  Two releases: that of the tool that
  runs and another one.  Entries are symmetric, and so are releases: nothing compares them but for
  equality.
* *Boot, resize.* One unit is 1 GiB.  `Want = 8`, `Stock = 1`, `LoSpan = 4` (a high register
  counts 4 GiB), `AddrLimit = 128`.  BAR3 sizes 1, 2 and 16 are as large as the stock
  BAR1, larger, and larger than the wanted one.  The memory maps and windows
  make the search skip candidates, double the gap, and run out: four candidates reach
  the end of this address space as the code's twelve may reach the end of the real one.
  The unit also hides that a bridge window is granular in MiB and BAR sizes are larger.
* *Boot, unlock.* `Polls = 2`, `Blocks = 2`, `Buffers = 2`, `Deadline = 2`: a loop that ends
  early, late, or by its bound; a first and a last block.  A boot that finds the card
  unlocked covers every platform; one that unlocks it varies what the card does; a third
  kind what the disks hold (`MCInit`): the resize does not look at SEC2 nor at the disks.
* *Firmware.* `FastList`, the image of 7163 pages, 512 entries, slots and map are the real
  ones.  `SweepBuses = 17` is real, `PortBuses = 24` stands for 256: the card is on buses of
  the fast list, on bus 8 and 16 within a sweep, and on 21 behind it.  17 device and 2 function
  numbers are enough for a compact layout to fold one address onto another.
  `MaxRoots = 2` stands for 8; three root bridges are the least that exceed it, in an order that
  leaves out the one of bus 0 and in one that leaves out the second root bus.
  One of machine, memory and clock varies at a time: no step reads two of them.
* *WinRing.* `Tries = 4` is real.  `Wrap = 6` lets the count reach all processes and −1.
  `MaxCalls = 2` is two clients once, or one twice.  The run has 520,000 states.
* *OlsCalls.* `MaxCalls = 3`.  Calls overlap on 64-bit Windows only and only `Rdmsr` and `Hlt`, one
  the driver serves and one it refuses: what overlaps is the handling of masks, which is
  the same for all functions and both NT drivers.  The bus varies for a client with all
  capabilities, not on 32-bit Windows, which searches as 64-bit Windows does, and one search runs
  at a time; `SetPciMaxBusIndex` of the other thread may fall into it.  Two buses in
  a "byte" of two values.

`CHECK_DEADLOCK FALSE` stands in `Link.cfg`, `Boot.cfg`, `Firmware.cfg` and `OlsCalls.cfg`: there the
system really stops, when no start is left, when Windows or the firmware has taken over,
when a bridge has been planned or a buffer is missing, and when the client's calls are used up.

### Fairness

* `ByovdDrivers!FairSpec`: weak fairness of a session's and a check's next step and of the
  exit of a process that does not live on.  The steps are synchronous calls of
  `sc.exe`, file and device functions; the code waits for each without a time limit
  (`40hxcore/probe.go:17`), so that they return is assumed, as the code assumes it.
  Nothing forces a start, a crash, a quarantine, the start of the application, or the GUI or
  guard to exit.
* `Gen2Link!Spec`: weak fairness of a session's next step (bounded loops over register
  accesses and sleeps) and of the task scheduler starting an armed task.  None of the guard.
* `EfiBoot!BootSpec`: weak fairness of the application, one thread with no interrupts, whose
  register reads return (a bus that hangs the processor is outside the model), and of the
  timer of the card, by which alone the last wait of `booter_load_v67` ends.  None of
  `EngineRuns`: the code on SEC2 may hang.
* `WinRing!FairSpec`, `OlsCalls!FairSpec`: weak fairness of each process's or thread's next step inside
  a call; nothing forces a process to call, close or end.
* `Rebar`, `Deployment`, `PciScan` and `FwMemory` state safety only and assume none.

### What the models say beside the runs

Found while the properties were being stated, and left out of the runs.

*Sessions.*
* Without `echoed`, `LinkIsBack` fails: a session reads `LNKCTL` while another has set link-disable,
  and writes it back after the other has cleared it.
* Without `met`, `DriversStayLoaded` and `CleanupLeavesNothing` fail with two elevated sessions: one's
  clean-up stops the drivers of the other.  With the branch of `main.go:1839` taken, as
  1198-1200 intends, sessions would not overlap at all.
* `CleanupLeavesNothing` excepts `late` because `sc start` by the application may fall between
  `sc stop` and the end of the clean-up.
* A session beside another process can mark a running service for
  deletion: a start that fails because the driver was just started is answered by
  a delete.  Under the resident strategy the driver keeps running all the same (`ResidentKeeps`).
* `check40x/main.go:170` has one flag for two drivers, so that a driver which was running is
  unloaded too if the other one was not; line 87 says "already running: leave it alone".
* `inst40hx/main.go:1750` arms a retry under the resident strategy, which 1453 and 1488 exclude.
* A killed session that had the link down leaves it down until the next boot: later
  sessions do not find the GPU and return before the code that clears the bit.
* Writes nothing orders: the status file is overwritten by a session that only skips
  (`main.go:1204`), the policy page writes four values one by one (`gui.go:571`).

*Deployment.*
* With two installation tools at once `SwapSpec` fails: the installer
  (`main.go:734`, which never releases its mutex) and the uninstaller (`main.go:1921`) hold
  different mutexes, the component page none.  The uninstaller stops no running
  session, which may arm the retry task again (1931).
* Without its `kills = 0`, `VerifiedMeansUnlock` fails: a boot entry left half-made by a
  kill is skipped by every later installation.
* A removal that cannot mount the ESP deletes the GSP value, leaves the EFI bootable and lists no
  leftover (`uninstall_ops.go:76`, 237): `UninstallRestores` excepts it by `missed`, `GspCoversUnlock`
  speaks of histories without a failed call.
* On a machine with an empty fallback slot a removal leaves the EFI there (finding 3) and deletes the
  GSP value: the clause of `GspCoversUnlock` on the slot holds only with a loader to put back (`had`).
* `verifyBootEntry` says "verified" with Windows Boot Manager first and the tools' entry second:
  `guidRe` (`main.go:542-550`) does not match `{bootmgr}`.

*Boot.*
* The roll-back writes the base of BAR1 while the size field still says 8 GiB (`v70.c:7131`), so
  that a base which is not a multiple of that is lost: hence `RevertedButForBar1` and not
  "every write is reverted" (6560).
* The resize switches the size field (7208) while decode is on, where the comment of
  7215 says before; the model takes no position on what the bridge does meanwhile.
* No list of preloaded images is ever filled, so `chainload_preloaded` always falls through, where
  7585-7588 describe preload, `LoadImage` and file systems as a series.  A loader that is started
  and returns ends the ladder.  After the ladder `efi_main` returns `EFI_SUCCESS`; 4956-4958
  expect the firmware to go on with its boot order.  If the card is not found or its BAR refused,
  there is no ladder at all (7331-7339).
* The comment before 2660 says a read of 0x8403C4 was removed because it hangs; 2688 reads it.
* `set_gpu_time` leaves the day of the month out (1405-1415); its comment misses only the leap
  corrections, which are there.  The fallback is 2026-08-18, not -19 (1400, 1420).
* The map of the memory puts image and heap at 0x1fe1f0000 and 0x1f7800000, where
  comments (6501, 4542) quote 0x1fe200000 and 0x1f7900000 from a log.
* A register block of SEC2 that takes no writes any more, as 2571-2582 report it after the first start
  of the booter, keeps whatever ran on it: of such a block `HandoverClean` only says that the clean-up
  was written.
* Only the first eight root bridges are searched for the card's bridge and for windows (765, 811),
  all of them for the card (6402): a card behind a ninth is found and its bridge may not be
  (`ParentIsFound` and `WindowsAreSeen` speak of `Collected` bridges).
* A firmware with the compact layout may show a card on bus 16 at 01:00.0 under the canonical
  one; the bridge to bus 1 is then taken for its parent (`ParentIsFound` needs `Faithful`).
* With a second root bus numbered as high as the card's, the windows of its bridges are not seen
  (`WindowsAreSeen` needs its guard on `RootBuses`).  Behind a switch only the window of the
  bridge next to the card is moved.

*WinRing0.*
* `IsSystemInstallDriver` (`Driver.cpp:291`) looks at the start type only when the query failed, and never
  closes its handle of the service: with a left-over service, or in a process that
  initialises a second time, creating the service fails in all four attempts.
* Two clients that ask for the count before either closes both see two and nobody removes the driver;
  so does a client beside a tool, which never removes it (`OlsDll.cpp:99`), whether the tool closes
  before or after.  `LoneClientCleansUp` says who repairs it.
* A driver that was started and cannot be opened is left running by the last attempt (183-187).
* A process that opens the device between a client's count and its stop loses the driver.
* `BufferSizeCheck` wants room in the *output* buffer also for what is only input: with this
  library 64-bit Windows refuses `Wrmsr`, all I/O port calls and PCI reads of less than eight
  bytes; 32-bit Windows serves one port call, the read of a DWORD.  `Hlt` is served on 9x only.
* As the header type cannot be read then, searches on Windows NT never look beyond function 0.
* `FindPciDeviceById` compares eight bytes with a number of four: only functions with zero in
  the command and status registers match.  With all 256 buses its byte-wide bus counter wraps, and a
  search with no match never ends (`CallsReturn` excludes exactly that), or finds the
  same device again as the next index.
* A `Px` call gives every thread of the process the mask of the process, also those
  that had chosen another one.

## 4. Findings

1. `main.go:1834`: an existing mutex is an error of `windows.CreateMutex` and lets the
   session run, against `main.go:1198-1200` ("without the lock exit at once, never enter
   the driver-loading critical section").
2. `main.go:1243`: a failed open of WinRing0 returns before the close of the other handle
   is deferred (1256); the clean-up stops a driver its own process pins, against 1217
   and 1888 ("nothing resident in the kernel, nothing left on disk").
3. `uninstall_ops.go:95`: the slot is restored only from a backup, so the unlock EFI
   stays in a slot that was empty before; `uninstall40x/main.go:5` says it is removed.

## 5. Proofs

All theorems hold for every value of the constants under the `ASSUME`s of the
module, which TLC evaluates in every run, and under the conditions stated here.
Each follows the same argument: an inductive invariant, one step per action, one
sub-step per conjunct that the action can disturb.  Typing invariants are proved rather
than listed in the runs.

**`ByovdDrivers_proofs`.**  For any number of elevated and limited sessions and diagnoses, under
the mutex as it is and with the application starting at any moment: `Typing`, `DriversStay`,
`CleanupIsComplete`, `AppDriverStays`, `ResidentKeeps`, `QuietIsUnloaded`, `ProcessesRunDown`.

* `DriversStay` needs to know where a handle may be left open by the early return of
  line 1243: `DriverInv` says that outside the stretch with both handles at most
  ThrottleStop's is, and that what a session holds runs as long as it has not met another
  elevated process; `Alone`, that it is then the only one there is.
* `CleanupIsComplete` needs the order of the clean-up: `CleanupInv` (with `Swept`) says what the
  service of a process that is alone can be before `delete` and before the file is removed, and
  `PendingIsHeld` that a pending stop has a handle behind it.
* `AppDriverStays` and `ResidentKeeps` (a running driver keeps running under the resident
  strategy) rest on `GateInv`: behind the gate of the clean-up is nobody under the resident
  strategy, and, while the application runs, only who is `late`.  That nothing but `sc stop` stops a driver
  is `OnlyStopStops`.
* `QuietIsUnloaded` needs to know who will still stop a driver: `OwedInv` says that each one
  that runs is `orphaned` or has a process that owes it a stop (`Owes`), and that a pending stop
  waits for a handle of a process that has not ended.
* `ProcessesRunDown`: `CallsLeft` counts the calls that may still come at a
  place, driver and attempt; at most 62.  Each call of a process lowers it, others do not touch it.

**`Gen2Link_proofs`.**  For any number of sessions that overlap at every step: `LinkTyping`,
`LinkReturns` and `GpuReturns`.  `StageInv` says where the loops of the three stages may be,
`SnapshotInv` that a pulse which will write the link-disable bit back has read it set (`echoed`),
`LinkInv` that the link is down only between the two writes of some session, or after a kill or
an echo, and that the GPU is lost meanwhile, `LostInv` that a lost GPU has a session that still owes it
the restart (`OwesGpu`), or was lost for one of the three reasons the property names.
`SessionsRunDown`: stage, round, half and place give a number of at most
48(`Rounds` + 1) that each step of a session lowers.

**`Rebar_proofs`.**  `RebarTyping`, `RebarWindow`, `RebarComplete`, `RebarRevert`, on `SavedInv`,
`WindowInv`, `ResizeInv` and `UndoInv`, which say what the registers hold before, between and after
the writes of each stretch.  `RebarTyping` holds the arithmetic: a plan never leaves the address space, for
any alignment of BAR3 allowed by `SizesAreAligned`.  `RebarRunsDown`: at most 31 writes and checks are
left, the roll-back included.  The lemmas on `Up`, `Down`, `\div` and `%` are stated once.

**`EfiBoot_proofs`.**  `BootImplementsRebar`: `BootSpec` implies `Rebar!Spec`, since every step of a boot is a step of
the resize or leaves its variables alone; `BootResizeSafe` thereby takes over what is proved
there.  `BootTyping`, and from `PreparedInv`, `EngineInv`, `FreshInv`, `ResizeApart` and `LadderInv`:
`BootPrepares`, `BootFresh`, `BootHandsOver`, `BootFindsWindows`.  `EngineInv` says at which stages SEC2 is
at rest, while the registers take writes; `ReadyToLoad` and `HandoverClean` state at what point they
except a `wedged` block, which no write of the code can repair.  `DueInv` needs no such exception: between
and after the attempts, a start of SEC2 has been followed by the writes of the clean-up.  The
first attempt runs without a reset, on the core the power-on state has selected.  `FreshInv` is what makes a zero
mailbox impossible after a start: the address was written before it.
`BootApproachesEnd`: each step of the application lowers `Chapter` (before the attempts, each of the three, after them), or keeps it and lowers `Place`,
or keeps both and lowers `Turns`: polls, buffers, volumes, ticks, and within the resize what
`RebarRunsDown` counts.  `LoopInv` says where the counters of the loops start and end.  What the card does
(`EngineRuns`) changes none of the three.

**`FwMemory_proofs`.**  `ScanFindsTheCard` and `ScanWritesTheCard` from `ScanInv`: while the search goes on,
whatever was scanned held no card, and what is recorded was reached with the layout that is still in
use; that the last pass misses nothing rests on `PlatformsAreEnumerated`.  `MemLayoutFits` and
`MemTablesReachData` from `MemInv`, which ties the table to the place and size of its buffer
while later buffers are added; `EntryExists` is the division with remainder behind it.
`BridgeIsTheParent` (where a card is at the address recorded for it, `Faithful`) and
`BridgeWindowsSeen`, both for what is behind the first `MaxRoots` root bridges (`Collected`), from `BridgeInv`: an address decodes back with the layout
it was encoded with, crossed layouts meet on bus 0 only, and by `BusesAreNumbered` a bridge is on a lower bus than the one it leads to, with its window inside that
of the bridge above, which decodes if it does: of the decoding bridges whose window is not seen, the
one on the least bus would have another above it that is not seen either.
`TimeNeverAhead`: the sums of days are recursive functions and a proof by induction is not to be
had; instead the least year, or month, at which the sum differs from the closed form is
compared with the one before it (`LeastNumber`, by the pigeonhole theorem for finite sets).

**`WinRing_proofs`.**  `RingTyping`, `RingCount`, `RingLastMeansLast`, `RingQuietMeansGone`,
`RingLoneClientCleansUp`, for any finite number of processes.  `Counts` makes
the count inductive: the number of open handles without those whose create is
pending, and what an unfinished request has read is still the count unless
`raced`.  `Follows` says what each place of a call implies for handles and requests, `LastInv` that
whom a client must not take the driver from (`held`) has it open still, and that a client which takes
itself for the last one has nobody of that kind, or a count that had lost an update.
What is left behind needs to know who will still remove it, however calls overlap.  `QuietInv`, as long as
the driver has been left to nobody (not `disturbed`): a running driver has a client that will remove it if it does
not come to use it (`Keeper`), unless `raced`; a stopped one has a client that will remove or start it (`Mender`),
or is marked and goes with the last leaked handle (`PinsInv`: of a process that still lives); and
there is a service only if the file was found (`FileInv`).
`RingCallsRunDown`: `CallLeft` counts the attempts and the places of the present one; taking the driver
away from a client makes it try again, but no more than `Tries` times.
`LoneInv`, after any history, speaks of a client beside which nobody runs: `LonePlace` is weaker, as
the client may find a driver that nobody uses, and strong enough after its own removal.  From
its second attempt on a service it has marked is still there, so that only in its first one can it start
a driver and then fail to open it: with `Tries` of at least two, that is not the last attempt.

**`OlsCalls_proofs`.**  `CallTyping`, `CallRunsWhereAsked`, `CallMasksComeBack`, `CallIsWhole`,
`CallFinds`, for any number of threads, processors, buses and functions.  `PinnedInv`: a thread about
to run has the mask it asked for, or was moved.  `BackInv`: without overlaps a `Px` call in
progress is the only one that changes masks and has saved all processors; a thread with a changed
mask has its own one saved.  `EffectInv`: aligned bytes are one piece, so that no call stops
half way.  `SearchInv`: the counter of a search is the number of wanted functions on
the buses behind it; that the i-th of them exists is a pigeonhole argument over ranks (`RankIsTaken`).
`CallsRunDown`: pins, pieces or buses left; the exception it states, a byte that wraps, is the
search that never ends (section 3).

**`Deployment_proofs`.**  `DeployTyping`; with `OneAtATime`, which `Deploy.cfg` sets, also `ToolsImplementSwap`, `OriginalKept`,
`OriginalRestored`, `VerifiedUnlocks`, `NoHalvesLeft` and `GspAlwaysCovers`.
`Alone` says that at most one tool is at work, `Held` what the slot and the backup hold
between tools (the loader in one of them; another content of the slot only with a backup beside
it), `Place(p)` what they hold at each step of the tool that runs, `ToldInv` what
"removed" stands for.  The other three need what a tool that came so far has in place, each for
the tool at work alone, since the others rest (`OneWorks`): `EntryInv` (every entry is set up,
except the one the tool is busy with), `VerifiedInv` (which files hold its release; `Written`),
`TornInv` (a torn file belongs to the tool at work or lies beside the backup; `Intact`) and
`GspInv` (without the value there is neither an entry nor an unlock EFI in the slot; `Covered`).

The refinement has one lemma for the tools that install and one for those that remove: with
`Held` and `Place(p)` every step is `SetAside`, `Write`, `Discard`, `Overlooked` or a stutter.

Only model-checked: the six liveness properties `SessionEnds`, `StoppingEnds`, `RetriesEnd`,
`BootEnds`, `InitializeReturns`, `CallsReturn`.  They are conclusions from fairness, and with it
`ENABLED`, which the prover does not handle.  The part of them that is about the program is
proved: `ProcessesRunDown`, `SessionsRunDown`, `BootApproachesEnd`, `RingCallsRunDown` and
`CallsRunDown` give a measure that every step of a session, a boot or a call lowers and that nobody
else raises, so that it ends unless it stands still.  That it does not stand still, a step being
possible at every place, is what is left to TLC.  `StoppingEnds` and `RetriesEnd` need
the task scheduler or other processes besides.

## 6. Abstractions a reader should know

* A session of `Gen2Link` has its drivers; that they may fail to load is the early end of
  `Find` and the failing `Reopen`.  `ByovdDrivers` in turn treats the link work as one step.
* In `Gen2Link` every pair of sessions may overlap: the mutex of `main.go:1834` is left out there,
  since it keeps nobody out (finding 1).
* `NULL` security descriptors, integrity levels and session isolation are reduced to "elevated
  or not", which decides whether a process may touch services and the mutex of another.
* Strategy and options are fixed during a run.  The ThrottleStop application may start at any
  moment; that it ends, which only lets clean-ups do more, is left out.
* `Deployment` leaves tasks, drivers and policies out; an
  installer that cannot mount the ESP stops there, a removal goes on with the registry.
* `Rebar` takes memory map and foreign windows as the code sees them; how far it sees is
  `WindowsAreSeen` of `PciScan`.
* `EfiBoot` knows nothing of what is on the engine: code that was loaded completely and code that was
  not are the same to it.  It takes the waits of `falcon_dma_transfer` as giving up silently,
  as the code does.  A card that is `wedged` stays so until the power is off.
* `PciScan` has one PCI segment and one root bridge per bus; registers below 256 are not told apart.
* The proofs about `PciScan` and `FwMemory` assume buses numbered from the root (`BusesAreNumbered`, as the
  firmware does it, which also turns the decoding of a bridge on only behind bridges that decode), addresses of configuration space that fit the fields of both
  layouts (`AddressesFit`) and a clock that shows dates (`ClockShowsDates`); those about `EfiBoot` that there are
  finitely many volumes (`VolumesAreFinite`).
* `FwMemory` lets the firmware give away pages in the regions the code asks for and nowhere
  else; nobody else allocates in between.
* `WinRing` has one name for the driver, as one build has; an open by the library and one
  by a tool look the same to the driver.
* `OlsCalls` does not tell apart the values that are read and written, nor two processors a call without
  a mask may run on.
* `LinkIsBack` and `GpuIsBack` except what no session repairs: a session killed before its PnP restart
  (`orphan`), a pulse that read the disabled port (`echoed`), and, for the GPU, a failed restart (`stuck`).

## 7. What is left

The runs, properties and hazards are kept to a number one can read, so that further modules
should take the place of a weaker property rather than add theirs.

1. The volumes of `Deployment` as the disks of `EfiBoot`.
2. `Autostart` and `Policy`: who registers and deletes the tasks, and `savePolicy` against a
   session that reads.  Today's code promises nothing there that a property could state
   (section 3).

## 8. Running it

    tlc -workers 2 -config Session.cfg MCByovdDrivers     # likewise the other runs
    tlapm Deployment_proofs.tla                           # likewise the other proofs

`Deploy.cfg` is the largest run, with 1.8 million distinct states; each run takes less than three minutes.
