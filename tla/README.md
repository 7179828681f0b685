# Verification of the car multimedia service and of the tracing tools beside it

The repository holds two bodies of code that have nothing to do with one another
at run time:

- an **Android application** that turns a board into the head unit of a car. A
  micro-controller (MCU) owns the power, the fan, the sound module, the radio tuner, the
  Bluetooth module and the resistor ladder of the steering-wheel keys; the application
  talks to it over a UART;
- the **Android platform tools** under `src/ADB/systrace/catapult`, in Python: `devil` drives
  devices over adb, `systrace` and `profile_chrome` record traces with one agent per source,
  `dependency_manager` and `py_utils` fetch files from a bucket under locks.

These TLA+ modules model the parts of both whose correctness depends on the order of
events: threads without locks, one-slot mailboxes, processes that the system may kill, devices that
reboot beneath a command, calls with timeouts whose threads go on, files that
several processes write.

In the sections on the application paths are relative to
`src/app/src/main/java/com/hooshmandkhodro/carservice/`, in those on the tools to
`src/ADB/systrace/catapult/`. The application has no document of its own behaviour and its tests
are the two generated templates, so the code and its comments are the reference. The tools have
docstrings and tests, which are quoted where a property states what they promise.

## The application

| Component | State | Operations | Talks to |
|---|---|---|---|
| Frame routing (`MyHandler`, `app/GpioUart`) | `buffer`, `steeringWheelData`, `steeringWheelDataStatus`, `touchBtnPanelData`: one slot each | decode a frame, open the call screen | everybody polls its statics |
| Steering wheel (`steeringWheelController/*`, `SteeringWheelContorllerActivity`, `UsbService.carSteeringWheelRunnable`) | table of learned values, gate `SteeringWheelControllerActivityIsRun`, `swcDelay` | teach, forget, dispatch a key, dispatch a panel button | volume, player, calls, screens |
| Service polling (`UsbService.CheckCallStatus`, `checkMCUstate`, `checkCpuTemp`) | thresholds, `emergencyTempOn`, `criticalTemp`, `threadStatus` | obey RUN and OFF, choose the fan level, limit the clock, poll calls | MCU, kernel, dialler |
| Audio source (`UsbService.checkAudioManager`, `RadioActivity`, `AUXActivity`, `TvChannelActivity`, `MediaFragment`) | preferences "radio runs", "AUX active", "head unit active", "Bluetooth player"; flags of the activities | choose the channel of the sound module, amplifier on and off | MCU, player |
| Sound module (`app/AudioValues`, `SettingsActivity`) | 14 stored values | balance, tone, gain, loudness | MCU |
| Calls, contacts, tuner, clock, pairing, brightness | see "Not modelled" | | |

What is hard in each, and what makes it correct:

- **Steering wheel.** The main looper and the dispatcher thread share four statics
  and the table, and every access is a step of its own. Correct means: learned
  values stay apart, a reading or a press causes one command, an option learns
  the key that is held, a matching reading is answered.
- **Service polling.** Commands arrive later than the check that chose them,
  frames overwrite one another, latches outlive changes of the power state, and
  kernel settings outlive the process. Correct means: power states are switched
  whole, an emergency keeps the fan at full level until a cold reading, a hot CPU
  is cooled, a cold one released, the clock limit never forgotten.
- **Audio source.** Android stops and destroys a screen after the next one is up, and
  channel commands are delayed by up to 1.5 s. Correct means: the channel follows
  the screen in front, and music that plays is heard.
- **Sound module.** Bit fields in three words stored one by one. Correct means:
  select bits untouched, the three words agree, frames well formed.

### SteeringWheel

One step is one access to a shared static.

- *Frames* (`MyHandler.handleMessage`): `FrameReading`, `FrameNoReading`, `FramePress`.
  A reading is the raw value divided by ten, as the code stores it. A frame that
  does not parse has the effect of one without a reading.
- *Activity*: `ActivityStarts`, `ActivityLeaves` write the gate and empty the
  mailbox as the life-cycle callbacks do.
- *Teaching* (`clickedOnOptionsTouchDown`): `TouchDown` reads status and value,
  `QueryBetween` reads again for the query, `OwnValueLower`, `OwnValueUpper` and
  `CheckNotIdle` are the conditions, `StoreValue` the update with the last read.
  The column is unique, so `StoreFails` kills the process. `TouchUp` empties the
  mailbox; `RefreshClick` and `RefreshRow` forget the table row by row.
- *Dispatcher*: `Wake` looks at the gate; the rest of the pass is
  `PanelCheck`, `PanelSwitch`, `PanelClear`, `LoadOptions`, `CompareLower`,
  `CompareUpper`, `RunCommand`, `ResetReading`, `EndOfPass`.
- *Death*: `Killed` resets every static and keeps the table.

Left out: what a command does to other components; the drawing of the rows. The
history variables `held`, `calm`, `firedFor` and `pressRuns` guard no action.

### McuService

Every action is one handler of the main looper, which runs them one at a time.

- `Frame` overwrites the mailbox, `Poll` is `CheckCallStatus` with
  `checkMCUstate`; `RunProfile` and `OffProfile` are its two branches.
- `CheckCpuTemp` is one check: `Emergency`, `Full`, `Half` and `Cold` are the
  conditions in the order of the code, `FanCommand` what is sent, `ClockCommand`
  the posted change of the clock limit that `ClockIsSet` carries out.
- `CheckArrives` and `HomeArrives` are delayed commands reaching the MCU. A check
  waits for the commands of the last one: 300 ms against 10 s on one looper.
  The order of a check's command and those of the home screen is left open,
  which covers all delays (0, 100 and 300 ms) of the latter.
- `ThreadStatus` and `SwcDelay` are the writes of other components, at any time.
- `Killed` is a restart: statics start again, the touch driver is loaded by
  `onCreate`, fan and clock limit stay as they were.

Left out: governor, screen timeout, toast and log; brightness; what the poll does
for calls and for audio (`AudioSource`). Root access and the UART are assumed to
work, since without them nothing the service decides has an effect.

### AudioSource

Every action is one callback or one posted runnable; the clock advances by `Unit`
milliseconds when nothing is due.

- *Life cycle* (external): `Resumes`, `Pauses`, `Stops`, `IsDestroyed`. A screen that
  is left pauses before the next resumes and is stopped and destroyed some time
  later, in the usual order after the next one has resumed; `crossed` notes when that happens between screens that take the channel. Each action of a screen conjoins its step of the life cycle with what
  the callbacks do: `RadioResumes` stands for `onStart` and `onResume`, with
  `RadioIsCreated` for `onCreate`, as the state before requires.
- *Commands*: `Post` is `sendData` with a delay; `CommandArrives` takes the one posted first of
  those that are due. Commands without delay reach the sound module in the step
  of their callback.
- *Check* (`checkAudioManager`): `FromRadio` and `FromAux` are its two rules, `AudioCheck`
  the whole. `MusicChanges` is the player, another program, and the user; a
  pause that the program asks for takes effect at once.
- `SettingsSound` is the settings screen, `RadioTunes` the seek bar of the radio.
- `Killed` empties the looper and the stack of screens; the preferences, the
  player and the sound module go on.

Left out: the commands to the amplifier. Abstracted: a button of the home screen
and the screen it opens are one step, and so are the back key and the `onPause`
that follows; home, settings, calls and other programs are "elsewhere"; a
closed screen is opened again only after its last instance was destroyed, though the
launch mode would allow two.

### SoundModule

A handler of the settings screen is a list of commits (`todo`), each one call of
`PrefManager.setVolumeValue` or of its like for the coordinates, and of frames it sends.

- *Words*: `LoudState` and `SetGainValue` are the handlers, `ModifyBit` the bit
  arithmetic, `StoreWords` the three commits of `modifySoundModeChannel` in their order.
  The words a handler stores are computed at its start: nothing else writes them while it runs.
- *Frame*: `GetAudioValues` keeps of every field its number and its width; `base` is the
  field of the bass that each instance of `AudioValues` remembers.
- *Balance*: `CalculateBalanceData` is exact on whole pixels, counted from the margins;
  the casts to `int` truncate towards zero, as `Truncated` does.
- `SettingsOpens` is `onCreate` and `onStart` of a new screen, whose switch reports a loudness
  that is on; `Commit` carries out one item of a handler; `HomeResumes` is the frame of
  the home screen; `Killed` drops the rest of the handler and every instance.

The history variable `torn` names the handlers that died and have not been run to
their end since; it guards no action. Left out: the volume field, its limit and
the mute keys; the words that `setSound` sends, which are the commands
of `AudioSource`. A frame is built at once and posted (`SendFrame`): for 100 ms by the settings, for 500 ms by the home
screen, so one of the settings may overtake older ones of the home screen. `FrameArrives` sends the one that is due, between
two handlers; a death drops what was posted. A slider that is set by the
program reports the change as one that is dragged does.

## The tools

They interact by calls alone: a script (`provision_devices`, `device_recovery`, a tracer) calls
`DeviceUtils` and the helpers around it; these run commands through `cmd_helper` and
`AdbWrapper`, wrapped by `timeout_retry`, in threads of a `Parallelizer`. What they share
is outside of the process: the device, its files and its log, the bucket, a file that
several programs write. That is why each module below contains its part of the outside
world as actions of its own, and why their composition (see "Runs") keeps the behaviours apart.

### What devil does to a device (`MCHost`, `MCScripts`, and the first part of `MCTools`)

| Module | Code | State and actions | What is hard |
|---|---|---|---|
| `DeviceBoot` | `devil/android/device_utils.py`: `Reboot`, `WaitUntilFullyBooted`, `EnableRoot`, `NeedsSU` | the boot of the device stage by stage (`GoesDown`, `ComesUp`, `GetsReady`), the call poll by poll (`Step`, `TimesOut`), what is remembered of su | the poll may miss the time the device is off line; root is lost in a reboot and the cache is cleared after it |
| `DeviceCache` | `device_utils.py`: `_EnsureCacheInitialized`, `GetProp`, `SetProp`, `LoadCacheData`, `DumpCacheData`, `_ClearCache` | the token on the device and in the dump, the cached property and packages of each session | a later script loads what an earlier one believed |
| `ShellCommand` | `device_utils.py`: `RunShellCommand`; `sdk/adb_wrapper.py`: `Shell` | tries of both levels, the script and the output in temporary files (`PushScript`, `PullOutput`, `Delete`) | adb truncates, loses or replaces an answer, and the command then runs again |
| `DeviceFiles` | `device_utils.py`: `ReadFile`, `WriteFile`, `PullFile` | versions of one file here and there, the way chosen by size | the file grows between the look at its size and the read |
| `PushFiles` | `device_utils.py`: `PushChangedFiles`; `md5sum.py`, `install_commands.py` | files of both sides, cached checksums, the plan of a call (`Compare`, `Push`, `ZipFiles`, `Unzip`, `DeleteStale`, `Commit`) | checksums are cached before the push, which may fail half-way |
| `ApkInstall` | `device_utils.py`: `Install`, `InstallSplitApk`, `Uninstall`, `ClearApplicationState`, what asks for version and directory | what is installed, cached paths and sums, the kind of the call (`Decide`, `UninstallFirst`, `AdbInstall`, `GrantPermissions`) | the cache decides that nothing has to be done |
| `SharedPrefs` | `devil/android/sdk/shared_prefs.py` | the document, the file, what the application has in memory; `Load`, changes, the three steps of a commit | the application reads and writes the same file meanwhile |
| `FlagChanger` | `devil/android/flag_changer.py` | a stack of states per object, the file, the enforcement; `EnterContext`, `PushFlags`, `Restore`, `ExitContext`, each with its failure | objects used one within the other, a body that fails |
| `Fastboot` | `devil/android/fastboot_utils.py`, `tools/flash_device.py` | the mode and the partitions of each device, the step of its thread | a command fails inside or outside the body of the mode |
| `BatteryUtils` | `devil/android/battery_utils.py` | charger, reported power, the steps left of a call (`EntersMethod`, `Runs`, `Fails`, `Unwind` through `try`, `finally` and retries); the cached uid of a package | whatever was switched off must be on again, whichever command fails; a cached uid outlives the package |
| `PerfControl` | `devil/android/perf/perf_control.py` | governor, speed and state of every processor; one action per script, `HotPlug` between them | mpdecision takes processors off line between two scripts |
| `Provision` | `devil/android/tools/provision_devices.py`, `script_common.py`, `DeviceUtils.HealthyDevices` | the chosen devices, the steps and commands left of each (`NextStep`, `Succeeds`, `SecondChance`, `Fails`), what each has | properties count after a reboot only, some failures end a step, others the device |
| `DeviceRecovery` | `devil/android/tools/device_recovery.py`, `device_status.py`, `device_blacklist.py` | a thread per device and program, the blacklist file and what each thread has read of it | reading, changing and writing the file are three steps |
| `Forwarder` | `devil/android/forwarder.py` | the host daemon, the daemon of the device, and the maps of every process | a list of ports fails in the middle; processes of a group come and go |
| `LogcatMonitor` | `devil/android/logcat_monitor.py` | the log, the threads that record it, the record, the line a wait has reached | a thread outlives the join, and the next start clears its event |

Constants widen the worlds: `Loses` and `Glitches` let adb report errors of what it did and miss
devices; `Short` and `Long` versions of a file are read on different ways; `Below` lays the
directories of a push side by side; `Names` are the calls an instance of `BatteryUtils` makes,
so that measuring (component `battery`) and asking for data (component `metering`) are explored
apart, which share no variable but the steps left of a call.

### What the tools do on the host (`MCHost`, `MCScripts`, and the second part of `MCTools`)

| Module | Code | State and actions | What is hard |
|---|---|---|---|
| `TimeoutRetry`, `BoundedCall` | `devil/utils/timeout_retry.py`, `reraiser_thread.py`, `watchdog_timer.py` | threads with their children, the clock in polls; `Caller`, `Threads`, `Tick` | a late thread cannot be stopped and acts beside the next try |
| `PseudoLock`, `Mutex` | `common/py_utils/py_utils/cloud_storage.py` (`_FileLock`), `lock.py` | inodes, the name of the pseudo lock, owners; `Polls`, `Open`, `Lock`, `Unlock`, `Remove`, `GivesUp`, `Dies` | the name stands for different files over time |
| `CloudStorage` | `cloud_storage.py`: `Get`, `GetIfHashChanged`, `GetIfChanged` | local file and hash file, temporary file, the caller | a process dies half-way through a download |
| `CommandOutput` | `devil/utils/cmd_helper.py` | the process of the command, what it wrote and what was read; the reader with select, or the thread with the queue; the lines | chunks begin anywhere, the process ends or closes its output at any time |
| `Quoting` | `cmd_helper.py` (quoting), `flag_changer.py` (parser and quoting of flags) | the words spelled out so far | one of two languages is written, the other read |
| `ConfigUpdate` | `dependency_manager/base_config.py`, `uploader.py` | the config file, the bucket, the pending uploads and their backups | one of several uploads fails after others have changed the bucket |
| `DependencyLookup` | `dependency_manager/manager.py`, `dependency_info.py`, `local_path_info.py`, `cloud_storage_info.py`, `binary_manager.py` | the merged table, the call; files come and go | the order of the configs decides, through every merge |
| `ArchiveFetch` | `dependency_manager/archive_info.py`, `dependency_manager_util.py` | the directories of the versions, the step of each process | only the download is locked |
| `BattOrMapping` | `devil/utils/find_usb_devices.py`, `usb_hubs.py`, `battor_device_mapping.py` | the tree of USB, what a call has read of it, the file of pairs | the tree changes between the commands that read it |
| `Parallelizer` | `devil/utils/parallelizer.py` | the calls made, the values per device | a call is used before the one before it has returned |

### Tracing (third part of `MCTools`)

| Module | Code | State and actions | What is hard |
|---|---|---|---|
| `TraceLog` | `common/py_trace_event/.../trace_event_impl/log.py`, `multiprocessing_shim.py` | per process the buffer, the lock and whether tracing is on; one file | threads share a buffer, processes a file, and a fork copies all of it |
| `TraceData` | `tracing/tracing/trace_data/trace_data.py` | handles and their files, the builder, the data | data are given away while the builder goes on |
| `TracingController` | `systrace/tracing_controller.py`, `tracing_agents/__init__.py`, `output_generator.py` | the state of every agent, what was recorded at a clock marker, the results | a call that timed out still takes place |
| `AtraceAgent` | `systrace/tracing_agents/atrace_agent.py` | a ring buffer per processor, the thread of the collection, process and thread ids | each processor drops its oldest events on its own |
| `FtraceAgent` | `systrace/tracing_agents/ftrace_agent.py` | the files of ftrace, the categories enabled, what the kernel recorded | the files outlive the run |
| `BattOrAgent` | `systrace/tracing_agents/battor_trace_agent.py`, `common/battor/battor_wrapper.py` | shell, port, firmware, charging, what the controller waits for | the shell may crash, the controller give up, and handlers run at exit |
| `ProfileCapture` | `profile_chrome/profiler.py`, `systrace/output_generator.py` | what was started, the results, the file | results of different kinds are merged |

In every module a command that may fail does so by an action of its own, up to a bound
(`MaxFaults`, `Tries`), at every place the code calls one; an exception is followed through the
`try` and `finally` clauses it meets. Time is not counted, except in `TimeoutRetry` and
`AudioSource`: a timeout is an action that may happen at any time it is waited with.

## Runs

| Run | Module, config | What it explores | What it shows |
|---|---|---|---|
| `steering_wheel` | `SteeringWheel` | 2 options, 2 readings, 1 panel button, 1 restart; fairness | teaching and dispatching in every interleaving: values stay apart, one command per reading and press, the held key is learned, a matching reading is consumed |
| `mcu_service` | `McuService` | 9 readings, 1 restart; fairness | power states are whole, an emergency keeps the fan at full level, the clock limit is known, a lasting temperature is answered |
| `sound` | `MCAudio`, `Sound` | words (4 gains, 2 deaths), tones (2 tones of bass and treble, 1 spot, 2 frames on their way, 1 death), balance (35 spots), the screens three at a time with their callbacks in Android's order (radio, AUX and TV; radio and Bluetooth with 1 restart; radio and AUX with 1 restart), the TV screen of a hasty user | what is stored is heard once the frames have arrived, and keeps its select bits; a screen in front has its channel, and it is given back |
| `host` | `MCHost`, `Host` | a call with 2 threads in a try, 1 retry and 4 ticks; updates of 2 jobs, interrupted anywhere; 2 devices flashed with 2 faults; ports forwarded by 3 processes; a wrapper of 3 devices; commands with 2 tries of adb and of the call; pushes of 2 directories; 4 boots; scripts one after the other; packages of up to 3 apks; 2 preferences of 2 types, with 2 failing commands and an application that saves; a context and an object that change 2 flags, one within the other (two contexts in `faults`) | tries overlap only if the watchdog ended the first, and implement a bounded call; a config is never ahead of the bucket, and an interrupted update is undone; a device is flashed as a whole; forwards, commands, pushed files and caches are what they are taken for; preferences reach the application, and flags and enforcement are put back |
| `scripts` | `MCScripts`, `Scripts` | downloads of 2 contents by 2 processes that die anywhere; the recovery of 2 devices; the provisioning of one with 3 faults and every option; fairness | nobody finds part of a file, a caller has what it asked for, every call ends; what is noted is on the blacklist, and what is not on it is ready |
| `trace_log` | `TraceLog`, `TraceLog` | 2 threads, 2 events each, no fork | the log is a list with each event once |
| `tools` | `MCTools`, `Tools` | every other module of the tools, in its first setting | what is read, restored, reported, looked up, locked and traced is true and whole |
| `faults` | `MCTools`, `Faults` | the modules of a device and the agents of systrace in their second settings; fairness | what is restored and written when steps fail; every call to a device ends |
| `ends` | `MCTools`, `Ends` | the modules of the host, the log with a forked child, the collection of atrace and the script with a BattOr, second settings; fairness | the lock is a mutex and handed on, every call ends |
| `music_unheard` | `AudioSource`, `AudioSourceMusic` | what the comment of the audio check says | `MusicGetsTheChannel` is violated |
| `frame_format` | `MCAudio`, `FrameFormat` | what the comment of `getAudioValues` says | `FrameIsWellFormed` is violated |
| `trace_log_held` | `TraceLog`, `TraceLogHeld` | what the log of events says of threads | `LockHasOwner` is violated |

**How the composites work.** In the application the components meet in shared statics,
which the modules of the application contain. The tools meet only in
the outside world, and a product of their modules would explore nothing but
interleavings that commute. `MCTools`, `MCHost` and `MCScripts` therefore instantiate each
module with small values for its constants, and a behaviour belongs to one `component`; a config names the components of its run.
`MCTools` gives the modules registers `r1`, `r2`, ... for their variables, of which a component uses the first few.
`MCHost` and `MCScripts` keep the variables under their names (those that two modules share are renamed in the
`WITH`), because their properties are also proved: the theorems of `HostProofs` are about `AnySpec` of `MCHost`, those of `MCScripts` about
its own `AnySpec`, the formulas TLC checks.
`TimeoutRetry` is extended by `MCHost`, `CloudStorage` by `MCScripts`, `PseudoLock` by `MCTools`, and `SoundModule` by `MCAudio`; `TraceLog` has runs of
its own. In all of these the named assumptions are evaluated and the properties stated as the theorems state them.
(Calls with a timeout and the log are in `MCTools` too: with one thread and a longer timeout, whose liveness is checked, and with a forked child, of which `tools` checks the larger instance and `ends` the liveness of a smaller one.
So are the config, the flashing, the forwarder, the wrapper, the boot, the push, the preferences, the flags, the recovery and the provisioning, in their second settings.) Where components do use one another, the module has the
other's promise in it: `CloudStorage` uses the lock as the mutex that `PseudoLock` is shown to
implement, and the calls of a device have the bounded tries of `BoundedCall`.

Almost every component has two settings: that of `MCHost`, of `MCScripts` or of the run `tools`, and that of `faults` and `ends`, where the constant
`Other` of `MCTools` is TRUE. The first has the
wider data (more files, devices, keys, processes); the second has the other faults,
another order, or a smaller instance whose liveness is checked. Two settings are
needed because a fault that one property survives makes another one false:
the section "Where the code does less than it says" names, for each such pair, the constant.

A property of a composite is a conjunction, one line per component, of named properties of the modules; its comment
states each. `CachesAreTrue` for instance says of the component `boot` that
`Boot!SuIsTrue`, of `cache` that `Cache!CachedPropIsTrue`, of `install` that `Package!SumsAreInstalled`, and of the steps of all three
what a call has done when it returns. Where the conjunct begins with `IInv`, TLC checks the inductive invariant of the proof with it.

**Bounds.** Two options of the steering wheel are enough for the properties that relate two of
them, and the proofs cover any number. Readings are chosen within and beyond the
tolerance of each other, so windows overlap. The nine temperatures are the two
values of a failing sensor and one representative of every interval that the
thresholds of both power states (52, 59, 60, 68, 74, 75) and of the clock limit
(80) cut out. One restart is enough: a second one starts from states the first one produced.
Delays are counted in steps: of 50 ms, which divide every delay that occurs but the 10 ms of
the seek bar, or of 100 ms, where 150 and 250 ms are rounded up and what is due at once comes in the
order it was posted. A user is `Patient` if he moves only when all commands have arrived;
without that the code gives no guarantee: the radio asks for its channel 1.5 s late, and leaving it
earlier lets that request win. Only the TV screen withstands a hasty user. Being patient does not
order the callbacks: the next screen is resumed while the one left is still to be stopped and, if it
was closed, destroyed, as Android does it, and any number of screens may owe theirs. `MaxPending` stops the
user and the checks, never a callback: with two commands on their way he goes on, in the run with the Bluetooth screen with
six, more than the five that opening a screen posts. The screens that compete for one preference or flag are together in one of
the three parts. The gains are all four of the slider; the tones are the two sides of the gap
at -3; the grid holds both sides of every limit of the balance. `MaxPosts` stops a handler from starting while so many frames are on
their way: two let one overtake the other. Two deaths let a second
handler die in the state a first one left, and a third finds nothing new.

In the tools, two tries of a call show a first and a last one; two or three faults let a fault
happen in the handling of another; two devices, two files and two keys show one that is
treated and one that is not; three processes are what it takes to lose a lock (one
removes its file, one has opened it, one creates the next); one script more than one shares a
file. A version, a checksum or a line is a value: two of each tell old from new, and an update of the config of one pair with three hashes has two files to exchange; `ends` has the second pair, without a
bucket, and two jobs for one file.
The words of `Quoting` are all lists up to the length at which quotes, a backslash and
what follows can stand beside each other. Where a bound would cut a call short it disables its
beginning, never a step of it.

**Fairness.** `SteeringWheel.FairSpec` schedules the dispatcher thread, a loop with a
sleep of 10 ms, and the handler that the main looper is running; it owes neither frames nor users.
`McuService.FairSpec` assumes the repeated runnables, which post
themselves again unconditionally, and posted messages. Its liveness is stated for
conditions that last ("from some moment on the CPU is hot and nobody holds the service"), because
a check that always meets a running key command does nothing.

For the tools, weak fairness is given to the threads of the program (`Caller`, `Reader`,
`ReaderThread`, `Proceeds`, `Step`, `User`, `Thread`), because a thread that can run does, and to the clock. A
device is owed nothing but a boot that has begun, in `DeviceBoot` (without it the timeout of
the call alone ends it). Strong fairness is stated where the code
tries again and again: the poll of a lock (`Polls`), whose global lock is held for a few system calls
only, the steps of the threads at the lock of the log, and the timeout of a
reader (`TimesOut`), which its loop looks at in every round. A command that never answers is
ended by the timeout that wraps it, and nothing is claimed for a call without one.

Deadlock is checked in every run. Where a component may really stop, because its script is over or
its one call has returned, the composite says so: a disjunct of `Stops` per component states its condition (`Returned` of a
call with a timeout, `Flash!Done`, `Speed!Spent`, `Prov!Reported`, `Rec!Finished`). Every other component must always have a step.

## Properties

Of the application:

- `LearnedApart`: no two options hold values within the tolerance of each other.
- `OneCommandPerReading`, `OneRunPerPress`: at most one command each. An option
  that learned the idle value by a race is excluded from the first: it would
  match for ever, and the code has no defence against it.
- `LearnsTheHeldKey`: a learned value is the key held down, or idle when a pass of
  the dispatcher overlapped the touch.
- `MatchedReadingIsConsumed`: once the activity stays closed, no matching reading
  stays in the mailbox.
- `ProfileIsWhole`, `EmergencyRunsFull`, `LimitIsKnown`, and `HeatIsAnswered` (a CPU that
  stays hot gets the full fan, one that stays cold is released).
- `SourcesAreGiven`: once all commands and late callbacks have come the screen in front has its channel, and when
  every screen is closed the head unit is heard. Excluded are the radio over
  an AUX screen that was left but not closed (the stale preference of AUX lets a check
  take the channel from the radio) and a death with the channel taken. The next screen is resumed
  before the last one is stopped and destroyed; from the radio to the Bluetooth screen and back the code withstands that, but among
  radio, AUX and TV the late `onStop` or `onDestroy` of one sends the command of another source when the next is in front
  already. `crossed` notes that case (`"front"`), and also that the settings sent the command of an AUX screen
  that was being closed (`"closing"`); the property excludes both, and is false without that.
- `SelectBitsKept`: no setting reaches the bits that select a channel.
- `SettingsReachModule`: between handlers the three words agree with the stored
  loudness and gain, unless the handler of that setting died, and one whole run repairs it; frames are built at once and
  sent 100 or 500 ms later, and once all have arrived the one heard last is what the preferences give, the bass of -3..-1 apart, unless a
  death has cost the last one or an older one of the home screen came after it (`behind`); the near side is
  never the quieter one, up to the last pixels at the bottom, where the percentage is negative and
  `checkPercent` answers the full level. A handler that runs owes what makes its setting right
  (`OwedInv`), and the frame built last is the last one posted or heard (`LastComesLast`). The run takes the settings apart, and `TonesReachModule` says the same of tones and balance.

Of a device: `CachesAreTrue` (invariants and action properties), `CommandsAreWhole`, `PushedIsThere`, `SettingsAreKept`,
`FlashedIsWhole`, `PowerIsRestored`, `ListedIsTrue`, `LiveIsKnown`, the action property
`ReturnsAsPromised`, and in the second setting the liveness `DeviceCallsEnd`.
Of the host: `TriesAreKept`, `TextSurvives`, `Exclusive`, `DownloadsAreWhole`,
`UpdatesAreWhole` (an invariant and an action property), `CallsAreInOrder`, the action property `AnswersAreRight`, the refinements
`ImplementsBoundedCall` and `ImplementsMutex`, and the liveness `CallersReturn`.
Of tracing: `LogIsWhole`, `NothingIsLeftOn`, `TracesAreWhole` and the action property `DataIsKept`.
In the second settings also `FaultsAreBorne` (a device, the controller and its agents), `HostFaultsAreBorne` (the host
and the log) and the liveness `CallsEnd` of host and tracing. The comment over each says, component by component, what it
promises and which sentence of the code it is about; the comments over the properties of the modules
say more.

**Abstract specifications.** `Mutex` is what a file lock promises; `PseudoLock` implements it
with the holders for `inside`. `BoundedCall` is what `timeout_retry.Run` promises, a bounded number of tries and
one result; `TimeoutRetry` implements it although threads of earlier tries go on.

## Findings

- `MusicGetsTheChannel` is the comment at `UsbService.java:498`, "when music is
  on headunit is playing, this function change the sound channel to the headunit
  channel". The code does not do so: a check that meets the music
  while the radio or AUX is in front marks the head unit as active without
  switching, and from then on both rules are skipped. After the screen is left
  with the home key the music plays unheard until that screen is closed.
- `FrameIsWellFormed` is the comment at `app/AudioValues.java:40`, "aud-##-###-###-###-###-###-###?".
  For a bass of -3..-1 `getBaseValue` discards what it computed: the field repeats the last one,
  and a new instance sends "null".
- `LockHasOwner` is `trace_event.py:40`, "trace_event is safe with regard to Python threads". A fork copies the lock of
  the log; when another thread held it, the child waits for it for ever at its first event.

### Where the code does less than it says

While modelling, more places were met where the code does other than a docstring or a comment
says. Each is in the model as the code has it; the constant in brackets admits the case, the runs
that state the promise set it to the other value, and setting it back shows the violation. Where
no constant is named, the property is stated so that it allows for the case.

Devices
- `DeviceBoot`: an error of adb in `NeedsSU` is cached as False (`device_utils.py:425`), which `SuIsTrue` allows for.
  [`Loses`]: the caches are cleared only if `adb reboot` did not raise, so after a reboot
  that reports an error `needs_su` is remembered from before it (`device_utils.py:667`).
  [`Glitches`]: any error of adb counts as "off line", and `Reboot` may return before the
  reboot (664). [`EarlyEnv`]: an empty `$EXTERNAL_STORAGE` is cached and fails every retry (504).
- `DeviceCache` [two `Sessions`]: the dump is compared with the token read at the start, not with the one
  on the device now (2446). A property that was set without a check is answered from the cache as '' until the
  device is asked (2124, 2095), and after a `SetProp` that raised the cache may hold the value before; `doubt` notes both.
- `DeviceFiles` [`Silent`]: an earlier file hides that `adb pull` brought nothing
  (`adb_wrapper.py:460`). A failing `mkdtemp` ends in an `UnboundLocalError` (1613).
- `PushFiles`: nobody asks how the process that zips has ended (`device_utils.py:1513`), so a zip may lack files, whose cached
  checksums later calls trust; `omitted` has them, and `PushedIsThere` excepts them until they change or the cache is
  cleared. [`Reverts`, `Breaks`]: checksums are cached before the push; a push that failed is
  taken for done when a file gets its earlier contents back (1340), and a broken
  `md5sum` on the device lists no stale file (`md5sum.py:90`). [`Tuples` with a
  directory below another's]: files of the inner one are deleted as stale (1369).
- `ApkInstall`: a package that changes between split and whole is not uninstalled first (763).
- `ShellCommand`: a temporary file whose one deletion fails stays on the device (`device_temp_file.py:46`; `undeleted`). Without `check_return` an error of adb itself is returned as output (921).
- `SharedPrefs` [`CanRemove`]: removing does not mark the document as changed (`shared_prefs.py:356`).
  [`AppWrites`]: the application is killed after the file is written and may save in between (288).
  An empty string is read back as None (129).
- `FlagChanger` [`Nested = FALSE`]: of two that overlap the one that ends last restores the flags of the other
  (`flag_changer.py:190`). The state is on the stack before
  the file is written (123), so a user whose `PushFlags` raised has to restore it, as the user of the model does.
  A command that fails while it restores leaves other flags (`unrestored`), and a failing `SetEnforce` (46, 56) leaves the
  enforcement lifted (`lifted`), as nobody tries again; `Restored` excepts these.
- `Fastboot`: a restart that fails inside the mode leaves it by its `finally` (`fastboot_utils.py:232`), and the device has not got
  its image. [`Failing` with "oem off"]: that command is inside the mode and outside the `try`
  (`fastboot_utils.py:229`). [`Lingers`]: a device that has not left yet counts as ready (111).
- `BatteryUtils`: a discharge that is declined for a low battery returns before it touches the charging (`battery_utils.py:470`), and leaves
  it as an earlier call that failed had left it. After a reinstallation under another uid `GetPowerData` takes the package for one that is listed twice,
  and raises until the cache is cleared; `GetNetworkData` answers from the old uid
  (`battery_utils.py:317`, 264). `UidsAreOfPackage` says that nothing else makes them.
- `PerfControl` [`Stubborn`]: a Nexus 5 is slowed down although a processor stays off line, and given
  its speed back only when all are on line (`perf_control.py:83`). [`Unrooted`]: the
  governors are written without root (74).
- `Provision`: a wipe that fails half-way, a question for the keys that fails or a writing of them that fails is only logged, and the device reboots
  without its keys (`provision_devices.py:293`); so is a failing write or `chmod` of the local properties (422), without which
  they are not in effect. `missed` has the commands that failed, and `WipeKeepsKeys` and `PropertiesAreInEffect` except them. `Found` is empty: a `DeviceUtils` is equal to its
  serial number and has another hash, so `NoDevicesError` is never raised at the end (145),
  unless no device was left to provision.
- `DeviceRecovery` [both `Programs`]: two scripts overwrite what the other has added to the blacklist, or
  remove the file the other is writing (`device_blacklist.py:72`, 36).
- `Forwarder` [`Pairs` that share a host port]: unmapping one deletes the entry of the other, whose
  unmapping raises (`forwarder.py:310`). A forward whose answer did not come is in no map (147), and one whose
  `--unmap` failed has lost its entry before (309, 312); both stay on the host daemon (`lost`). `LiveIsKnown` is about the others,
  and `LostIsAskedFor` says that nothing else loses one. The handler of a failed mapping names an unbound `e` (165).
- `LogcatMonitor` [`JoinTimesOut`]: a thread that outlives its join records again after the next start
  (`logcat_monitor.py:181`). [`LogcatFails`]: a failed thread is taken for one that records (191).

Host
- `CommandOutput` [`Pauses = FALSE`]: the reader stops when it finds the process dead, although more was
  written (`cmd_helper.py:254`). [`Closes`]: a process that closed its output is killed although nothing
  failed (261). [`IterTimeout`]: the chunk that arrives late is dropped (429). [a return among the `Characters`]: one that ends a
  chunk makes an empty line of the newline that follows (440). Without `iter_timeout` the reader with a queue waits
  for a chunk without looking at the timeout of the call.
- `Quoting`: an empty flag is lost, a backslash at the end of a quoted one swallows the next
  (`flag_changer.py:290`, 293); double quotes do not escape backslashes (`cmd_helper.py:67`).
- `ConfigUpdate`: an interrupt between the writing of the config and the dropping of the uploads
  rolls back the files of an update whose config is written (`base_config.py:281`; `written`), and one between an upload and its note leaves the new file in the
  bucket (`unnoted`). Both are in the model, and the properties name them. [`UsedAgain`, `SameFile`]: backups are
  overwritten (`uploader.py:95`, 29).
- `DependencyLookup`: a path that vanishes between the two questions for it ends the lookup in an `OSError` (`local_path_info.py:13`). The default path is answered before the fallback without a version is tried
  (`binary_manager.py:55`).
- `ArchiveFetch` [`Killed`, two `Processes`]: the existence of a path decides whether to unzip, and unzipping is under
  no lock (`archive_info.py:67`, 54). A bad archive ends in an `UnboundLocalError` (`dependency_manager_util.py:101`).
- `BattOrMapping` [`Others`]: whatever is on a labelled port and no BattOr is taken for a phone
  (`battor_device_mapping.py:208`).
- `Parallelizer` [`Maps`]: `pMap` on a wrapper that is not finished raises (`parallelizer.py:176`). The limit of `pGet` is
  not looked at while threads are joined (135).

Tracing
- `TraceLog` [`Forks`]: parent and child share one open file and with it its flock, so their separators
  mix when both write at once (`log.py:116`); a child without events of its own writes its parent's again
  (`multiprocessing_shim.py:24`). `crossed` notes when the one and the other has happened, and `WholeUntilCrossed` says that nothing else harms the file.
- `TracingController`: a marker whose command raised may be in the trace without the controller knowing it (`atrace_agent.py:229`); at most one, of a stop that raises.
  [`Late`]: an agent that starts after its timeout is never stopped (`tracing_agents/__init__.py:85`).
  The result of `StopTracing` does not tell that agents did not stop (227).
- `AtraceAgent` [`Fails`, `Marshmallow`]: a dump that fails ends the thread before the trace is stopped
  (`atrace_agent.py:258`); `sys.exit` ends the thread only (277), and so do an error of a command or of the decompression in `_preprocess_trace_data`, without a
  result (281); `/proc` is read when the trace is over (282).
- `FtraceAgent` [`Breaks`]: a write that raises leaves the events enabled so far (`ftrace_agent.py:175`).
  [`Asked` with the string of the option]: its letters are taken for categories (119).
- `BattOrAgent` [`ChargingFails`]: the handler that restores charging is registered after charging was
  switched off (`battor_trace_agent.py:110`). [`ShellDies`]: the file of a shell that crashed is read in part
  (`battor_wrapper.py:251`). [`TimesOut`]: the timeout of the wait for the shell ends `StopTracing` (250).
- `TraceData` [`Careless`]: an open handle ends the clean-up (`trace_data.py:169`). The part of Walt is
  missing from the list of parts (127).
- `ProfileCapture` [`Intervals` with none]: None is divided (`profiler.py:24`). [`Empties`]: the first character of
  an empty result is looked at (`output_generator.py:151`).

Application: a panel press between its command and the
clearing of the mailbox is lost; a frame that arrives during a command is lost with the reset; a restart
with the clock limit set forgets it; a sensor that cannot be read counts as cold
and switches the fan off; RUN and OFF frames can be overwritten before they are polled; the comment at
`SettingsActivity.java:122` calls front the fields in which `speakersInit` stores the rear
percentages. None of these contradicts a statement of the repository that could be decided without the wiring.

## Proofs

`SteeringWheelProofs` proves `TypeCorrect`, `TaughtValuesApart`,
`AtMostOneCommand`, `AtMostOneRun` and `TeachingIsExact` for any number of options,
readings, panel codes and restarts, from `SteeringWheelAssumption` (readings
below 360, 999 not a panel code, the empty value not an integer).

The invariant `IInv` says where the two threads can be with which values.
`StatusInv` ties the status to the held key; `RangeInv` and `QueryInv` say what the
teaching handler knows at each of its steps: between its reads the mailbox can
change in one direction only, to idle, because frames are handled by the looper the handler occupies.
`GateInv` says that a pass running beside the activity began before it;
`CommandInv` and `PressInv` say that once a command or a press is counted, its mailbox
is about to be emptied or is empty. `LearnedApart` alone is not
inductive: the store would have to know that the queried range holds the stored value.

`McuService` contains `ServiceTypes`, `PowerStateIsWhole`,
`FullFanInEmergency` and `LimitFlagIsRight` for any set of readings, from
`McuServiceAssumption`. The strengthening is `OnItsWay`: while the emergency is
on, no weaker level of a check is on its way; without it the arrival of a command could break `EmergencyRunsFull`.

`SoundModuleProofs` proves, for any tones, gains and spots and any number of deaths, from
`SoundModuleAssumption`:

- `SoundTypes` and `SelectBitsStay`. Neither is inductive: a handler that is half done still owes
  commits. The invariant `IInv` (theorem `Invariance`) therefore says of the commits in `todo` what it
  says of the preferences: a word owed to a channel has that channel's select bits, a level is one of
  those of `checkPercent`. The lemmas about `ModifyBit`, `Modified`, `LoudState`, `SetGainValue` and
  the balance show that every handler is a list of such commits; one lemma shows that carrying out one
  of them, or dying, keeps the rest.
- `SettingsReach`, from `OwedIsKept` and `LastComesLast`. "The words follow the settings" is no invariant while a
  handler runs, and types do not tell what the commits it owes will make of them. `OwedInv` says what:
  for each of loudness, gain, frame and balance, either the setting is neither torn by a death nor of the
  handler that runs, and then it is right now; or that handler runs, and the preferences
  with all of `todo` written over them (`Stored`) have the setting right, and the list ends in the building of the frame
  that tells it; or the handler that runs touches none of its keys (`Skips`). A commit takes the head
  of the list and writes it, which leaves `Stored` as it was; a death makes the setting torn; a
  handler begins with a list for which `Stored` is computed. The last is where the arithmetic is: the loudness
  and gain bits of each word are set one by one (`KeepsBit`), and the eight cases of the balance compare
  the percentages of `speakersInit` for every spot of the picture. `LastComesLast` takes it from the frame that was built to the one that
  is heard: a frame is inserted before later ones only if it overtakes none and none overtakes it, or `behind` says so.
- `TonesReach`, in `MCAudio`: `TonesReachModule` is about two instances of `SoundModule`, and their `IInv` and
  `OwedInv` are kept by the lemmas above, read through the instances.

`PseudoLock` contains `SpecConsistent`, `SpecExclusive` and `SpecImplementsMutex`, for any number of processes
and files, from `PseudoLockAssumption` (the absent process and file are none of them).
`Exclusive` is not inductive: that two processes never hold the lock rests on their having locked
the same file. `Consistent` adds that whoever opens, locks, unlocks or removes is alone under the global lock
(`Guarded`), that a holder has locked the file that the name stands for, and so has whoever is about to
lock or to remove it (`SameFile`), and that the lock of a file belongs to a holder that
has it open (`OwnersHaveOpened`). One lemma per action shows that it is kept. The refinement maps
the holders to `inside`: the lock of the file is an `Acquire` because nobody holds it then, unlocking,
a death and a wait that was given up are a `Release` or a stutter, and everything else is a stutter.

`HostProofs` proves theorems about `AnySpec` of `MCHost`. Its parts, one for each component, show that the component's
`Init` implies `IInv` and that each of its actions keeps it; `AnyStep` says that a step of the composite is one of
its component or a stutter, and the theorems put these together. `IInv` is defined at the end of the component's module.

- *Calls with a timeout*: `KeepsItsTries` and `ImplementsCall`, for any number of retries and of threads a
  try starts, and for any timeouts (`TimeoutRetryAssumption`: times and retries are natural numbers). The deadline alone is not inductive: `InTime` adds when
  the try began and how long its joins may last; `LaterTriesAreNew` that nothing of a later try exists; that a
  child waits or sleeps only while its group does, and ends before it (`ChildrenAreBlocked`,
  `GroupsEndTogether`); `LeftAreEnded` that what is left for another reason than the watchdog has
  ended, which is why an exception is no overlap; `ResultIsOfTry` that a result other than a value takes the
  last try. The last gives the refinement: leaving a try is `TryAgain` or `Finish`, and every step of a
  thread, a poll or the clock is a stutter.
- *Configs* (`WholeUpdates`): for any pairs, hashes and number of jobs. A config is downloadable after an update because
  each pair that the config in memory names differently has a pending job (`MemoryIsPending`) and every job is
  uploaded by then (`UploadedSoFar`); a failed update leaves the bucket as it was because what each job has done so far can be undone, and
  no two jobs touch one file (`CanBeUndone`, `DistinctFiles`), and jobs that wait have done nothing (`PendingIsFresh`).
  An interrupt may come between any two steps: what it leaves is one backup that was not noted, one file that was uploaded and not
  noted (`unnoted`), or a config whose files the rollback then takes away (`written`); the roll-back of the jobs undoes all but these
  (`Remains`, `Named`).
  The theorem assumes `Careful`. Each part is needed: an update after one that was rolled back (`UsedAgain`) overwrites the backups, and of two jobs with
  one file (`SameFile`) the second backs up what the first has uploaded.
- *Flashing* (`WholeFlash`): for any devices and any steps that fail. `Progress` says that what is flashed and what is left make up
  what was to be flashed, until nothing is left or the device has failed, and that nothing is flashed before the build is verified.
- *Forwards* (`KnownForwards`): for any processes and groups. `LiveIsKnown` is kept together with `KnownBothWays`: the map by host port
  is a subset of the one by device port, so that unmapping finds in both what it deletes. `LostIsAskedFor` is proved with it: a forward becomes lost by a step of the call that
  maps it, which then raises, or of one that unmaps it. It assumes that no two forwards
  share a host port (`OwnHostPorts`): of two that do, unmapping one deletes the entry of both, and the `KeyError` of the other
  leaves it alive and unknown.
- *Wrappers* (`OrderedCalls`, `BlockingRunsOne`): for any number of devices and of calls (`CountsAreNatural`). `First` chooses the
  least device by `CHOOSE`; that there is one is a lemma from the well-foundedness of the order on numbers. `CallsAreInOrder`
  needs that a list holds the values of a finished call, that whoever is no longer waited for has ended, that the call made
  last is made after its parent, and, of a blocking wrapper, that only the call waited for runs.
- *Commands* (`WholeCommands`): for any number of tries of adb and of the call. `RunsSoFar` accounts for the runs: a try costs at most
  `2 * AdbTries`, `AdbTries` with a pipe and `AdbTries` with a file, of which the one at work has used as many as it has
  tried. `ReadHasRun` and `HeldWhileRunning` say when the file of the output exists. A deletion may fail, after which the file is in `undeleted` for ever.
- *Pushing* (`ThereAfterPush`): for any files, directories and versions. A call compares first and pushes long after; `UnchangedIsPushed` says that a
  file that has not changed on the host since is on the device or among those to be pushed, `ZippedIsChanged` that what the zip
  file holds is one of those, as it is, though it may lack some, and `LackingIsStale` that what the host lacks is deleted, where the checksums are those of
  this call. It assumes that no file lies in two of the directories pushed (`Disjoint`, as in the run): the stale
  files of one are deleted after those of the other were compared. With cached checksums (`CacheIsTrue`) the assumption of `MCHost` asks that no file
  of the host gets back an earlier version; the run `faults` has the cache.
- *Caches* (`TrueCaches`): of the boot, `SeenStays` and `SeenDown` say that each poll of a call is about the device that came up after
  it went down, and `FallsInCall` that a device that falls has lost what was cached of it. This needs `AdbIsTrue`: an `adb
  reboot` that raises although the device reboots leaves `needs_su` cached. Of the cache of a script, `TokenIsOfDevice` says that a token that a session
  has made is on the device and not in the dump, so that a dump with the token found at the start was
  written by the last session that used the device (`DumpOfPrevIsTrue`). This needs `OneSession`: of two sessions at once one
  changes the device after the other has read its token. Of packages, `SumsAreVerified` says that checksums that are not those of the package are met by
  paths that are empty or will be verified, and `CallStands` that what a call does not install is there, up to the last step, for any splits and versions.
- *Settings* (`KeptSettings`): for any preferences, flags and changers, and any depth of the stacks. A commit may fail after each of its steps; `CommitsInOrder`
  says that what is labelled was written and that the application is stopped only when it can read the file. The changers of flags form an order, in which
  all but the last are in their bodies (`OrderIsOfUse`); the height of a stack is what its changer has still to undo (`StackIsOwed`), it begins with
  what the one before has on top (`StacksBeginOutside`), and the file has what is on top of the last one (`FileIsOfLast`), so that whoever leaves puts back what the one
  before had set, and the first what the device had. `EnforcementIsOwed`: an enforcement that was lifted is that of a context still in use, or of a command of the enforcement that
  failed. Any command may fail, and may have done its work or cleared the file when it does. The theorem assumes
  `Nested`: of two that overlap, the one that ends last restores the flags of the other.

`MCScripts` proves theorems about its `AnySpec` in the way `HostProofs` does, the proofs below the properties.

- *Downloads* (`WholeDownloads`): for any number of processes and contents
  (`CloudStorageAssumption`: what is no content is none). A caller finds what it asked for because nobody else is at
  work: `HolderWorks` says that whoever checks, downloads, copies or returns holds the lock, and
  `MovesWhatItWants` that what lies in its temporary file is the content it moves. A death leaves the lock and the temporary file only.
- *Lists* (`TrueLists`): for any devices, whichever command, reset or thread fails. Of the recovery, `ThreadsArePlaced` says where
  the thread of a device can be in each part of the script and where it goes on after it has written; `OneWrites` that whoever writes holds the lock and has read the
  list as it is, `TornIsWritten` that an empty file is being written, and `ListIsKept` that what was noted is in the file or in the copy that
  is written to it. The theorem assumes `OneProgram`: the lock is one of threads, and of two scripts one overwrites what
  the other has added, or removes the file the other is writing. Of the provisioning, `StepsAreWellFormed` says of the commands and steps left of
  a device that what is stopped is started again, that a wipe and a property end in a reboot, that a later step sets again what a wipe removes,
  and that a step which may be cut short has nothing the device cannot do without; `GoodAreOnTheWay` that what a device which is not blacklisted still lacks
  is among the commands left of it. Both are kept whether a command succeeds, fails with or without its effect, or gets its second chance, and when nothing is left the device has it all.

`TraceLogProofs` proves `LoggedIsKept` for any threads (`TraceLogAssumption`: none is called as the child's), with a fork or without: what was logged is in the buffer or in the file
(`NoneIsLost`), one thread of a process is at work, the one that holds its lock (`OneWorks`).
`WholeLog` says `WholeUntilCrossed` for any number of threads with a fork or without, and without one also `LogIsWhole`: the file is a
list until parent and child write at once, and has each event once until inherited ones are flushed. It
needs that the file begins with its header (`Headed`), that the writers of one open file take turns until it is `"mixed"` (`OneWriter`), that a process
without a fork has an open file of its own, so that the flock excludes the other (`OwnFile`), that commas and events take turns up to where the
writer stands (`InTurns`), and that no event is both in the file and in the buffer of the process that logged it, until it is `"copied"` (`EachOnce`). `TraceLogAssumption`
adds that there is a main thread.

TLC evaluates these assumptions in the runs `steering_wheel`, `mcu_service`, `sound`, `scripts`, `trace_log` and `host`, and that of the lock in `tools`.
`MCHostAssumption` is the conjunction of what the components of `MCHost` need (`NamesDiffer`, `FailingAreSteps`, `Grouped`,
`CountsAreNatural`, `TriesAreMade`, `PushesApart`, `UnknownIsNone`, `ChangersApart`): that constants that stand for different things
differ, and bounds are numbers. What the code does not guarantee (`Careful`, `OwnHostPorts`, `Disjoint`, `AdbIsTrue`, `OneSession`, `Nested`, `OneProgram`) is
a hypothesis of the theorem that needs it. The runs `host` and `scripts` have constants for which each of them holds, and
"Where the code does less than it says" lists what happens without. The inductive invariants are checked by TLC as well, as the first conjuncts of
the properties of `host`, in `ListedIsTrue`, and in `SettingsReachModule`, `TracesAreWhole` and `HostFaultsAreBorne`.

Only model-checked: all liveness and everything about fairness, which the prover does not treat;
the action properties of several modules in one run (`AnswersAreRight`, `ReturnsAsPromised`, `DataIsKept`);
`AudioSource`, whose channels depend on what is in flight in which order; `TextSurvives`, where the words are
of any length and their reading is recursive; the second settings in `FaultsAreBorne` and `HostFaultsAreBorne`, those of the log apart; and
`PowerIsRestored`, `NothingIsLeftOn` and `TracesAreWhole`, whose modules look
into sequences of commands that each undo a part of what came before (`BatteryUtils`), or into text and events (the agents).

## Hazards

`PROJECT.json` lists the hazards the properties were chosen for, each at its line. Beyond these:

- *Calls* (`PhoneDialerFragment`): the poll of the dialler reads the shared mailbox every second and leaves number
  frames in it; each command stops the polling of the service and posts its restart, so two commands
  within the delay restart it early. Two keys of the wheel stop the polling without restarting it.
- *Contacts*: a contact and its numbers are saved by separate statements without a transaction, and foreign keys
  are switched on only in the session that creates the database.
- *Tuner*: the search is posted for 15 or 35 seconds and outlives the screen; the dispatcher clears `swcDelay` although
  the search may have set it meanwhile.
- *Browser agents*: any line of the log that says a trace is finished is taken for the one of this run
  (`chrome_tracing_agent.py:100`); a browser that begins after the five seconds is never told to stop (89).
- *perf*: one that has not started cannot be signalled, and is ended by nobody (`perf_tracing_agent.py:71`).
- *Processes of a device*: `KillAll` waits for the pids it found and not for the name, and is retried as a whole
  (`device_utils.py:1064`, 1040).
- *Thermal throttling*: a watcher knows only of changes since the log was last emptied (`thermal_throttle.py:77`).
- *Clock of trace events*: a turn of the tick count that nobody samples is lost (`trace_time.py:188`).

## Not modelled

Of the application:

- **Call dialler and call log**: the state of a call is that of the modem, which answers by frames whose order is nowhere
  described.
- **Contacts**: statements of one table after the other on one thread; what is hard in them is the
  transaction of the database library.
- **Radio tuner**: depends on the timing of the tuner, which is not in the repository.
- **Volume**, its limit and the mute keys: delayed frames of the kind `SoundModule` has.
- **Clock**: a request, an answer and a retry with a counter.
- **Pairing, brightness, views, dependency injection, logging, template tests, build files**: they keep no state of the program
  beyond two flags, one of which `AudioSource` treats.

Of the tools:

- **Agents that trace a browser**, **perf**, and **other sources**: each talks to a program that is not in the repository by
  broadcasts, lines of its log or one command; what is hard in starting, stopping and collecting
  is in the agents that are modelled.
- **Thermal throttling**, **the clock of events**, **processes of a device**, **settings and screens**: readings of text and
  single commands over the calls that are modelled.
- **Ports of test servers**: handed out under the lock that is modelled.
- **Command lines, wording, package files, build tools, errors, environment, documents, refactoring of sources, unit tests**:
  stateless, or text in and text out. Unit tests were read for what they promise.
- Within modelled components: the members of a set of strings, the parsing of listings, the
  firmware of the BattOr, the Windows variants of archives and locks. `Provision` assumes a blacklist file, without which
  a device that failed is only logged.

## Plan

1. Theorems about `AudioSource`: its types, then `ClosedMeansHeadUnit` for a
   patient user, from an invariant that says which commands can be on their way
   for each life cycle.
2. `ChargingIsRestored` of `BatteryUtils`, for which what a call has left to do must be a set of obligations and not a sequence.
3. The dialler with an abstract log of one entry per call, once the frames of the modem can be told from a recording.
