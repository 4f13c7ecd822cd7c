# libwifi in TLA+

Specifications of libwifi, the C library of this repository that switches a
Linux device between station mode and access-point mode, scans for access
points, and reads its own configuration files back. The library is small
(`src/wifi.c`, `src/utils.c`, two headers), keeps no state in memory and takes
no lock: its state is the process table, the pid files, the configuration files
and two files under `/tmp`, all of them shared with daemons and other processes.
Its difficulty is therefore in what happens *between* two of its steps.

The repository also carries the sources of two packages of wireless tools. One
program of them has the library's kind of difficulty and touches what the
library stands on, the names of the interfaces: `ifrename`, modelled as well.

Line numbers such as wifi.c:71 refer to `src/wifi.c` of the repository;
utils.c, includes/wifi.h, README.md and test/ likewise; ifrename.c, iwlib.c and
the manual pages are under `externel_library/wireless-tool/wireless_tools.29/`.

## 1. The system

| Component | State | Operations | Interacts with |
| --- | --- | --- | --- |
| Station mode (wifi.c:12-77, 259-299, 343-347) | `wpa_supplicant.conf`; `/var/run/wpa.pid`, `udhcpc.pid`; the streams a caller leaves open | `wifiOpenSTA`, `wifiCloseSTA`, `wifiRestartSTA` | starts wpa_supplicant and udhcpc with `system()`, kills them by the number in the pid file |
| Access-point mode (wifi.c:79-258, 300-341, 348-352) | `hostapd.conf`; `hostapd.pid`, `udhcpd.pid`; the address of the interface; the caller's structure, corrected in place | `wifiOpenAP`, `wifiCloseAP`, `wifiRestartAP` | starts udhcpd and hostapd, kills them by pid file |
| Scan (wifi.c:353-459) | `/tmp/wifiGetAPList.txt`, `/tmp/wifibss.txt`, the caller's result structure | `wifiGetAPList` | asks the running supplicant through `wpa_cli` |
| Selection (wifi.c:461-485) | local | `wifiGetAPInformation` | returns a pointer into a result structure |
| Settings (utils.c) | the caller's structure, both configuration files | `wifiUtilsSTAInit`, `wifiUtilsGetSTAConfig`, `wifiUtilsAPInit`, `wifiUtilsGetAPConfig` | reads what the opens wrote |
| ifrename (ifrename.c, iwlib.c:229-303) | the kernel's names of the interfaces, `/etc/iftab` | a pass over all interfaces, with or without takeover; one interface for a hotplug script | ioctl SIOCSIFNAME and those that tell a MAC address or a driver |
| Printing (`wifiPrintAPInformation`, the `LIBWIFI_*_PRINT` macros) | none | | stdout |
| Unit tests (`test/`) | none | | call the library against the hardware |
| iw and the rest of wireless_tools (`externel_library/`) | none | | vendored; the library neither links nor runs them |

How they meet: an *application* (a caller) makes one call at a time. A call
runs commands and waits for each. The daemons it starts go on by themselves:
they write their pid file some time after the command has returned, stop when
they are told to (or when they like), remove their pid file as they exit, or
crash and leave it. Two applications may use the library at the same time.
A scan needs the supplicant that station mode has started. The read-back gives
an application the settings that some earlier application opened with. Both modes
work on wlan0, and nothing in the library keeps one from opening on top of the
other. That an interface is called wlan0 is up to the kernel and, if the device
runs it, to ifrename, which an init script runs over all interfaces and a hotplug
script for each that is plugged in.

What is hard here:

- **stale pid files**: a close reads a number, and kills it later (wifi.c:273);
- **early returns** in the middle of a call (`ASSERT`, wifi.c:270, 282), which
  leak streams and leave one daemon running or a file truncated;
- **asynchronous daemons**: the open of the access point returns before hostapd
  has written its pid file; a restart starts a daemon while its predecessor is
  still shutting down;
- **waiting**: udhcpc stays in the foreground until it has a lease (wifi.c:71);
- **shared files** without a lock, and a scan that counts first and then queries
  by position a list that changes meanwhile (wifi.c:383-396);
- **reused structures**: what a call leaves in its caller's structure is what the
  next call starts from;
- **crashes and kills** of daemons and of the application;
- **names as handles**: ifrename reads an interface by name, looks the new name up,
  and renames by name, while others plug, unplug and rename; a takeover frees a
  name by moving another interface aside.

What makes each component correct:

- the modes: at most one session at a time, ended before the next begins
  (`Service`); the daemon runs only on a file that a valid call wrote in full; a
  close that returns 0 has closed; no stream is lost beyond the known early
  returns; nobody but a daemon of the library is signalled before one has crashed;
  every call returns but an open that gets no lease;
- the scan: an undisturbed call returns exactly the supplicant's list; a
  disturbed one never mixes two access points in an entry, nor fills entries
  beyond its count;
- both modes: they are never on the interface together, a close leaves no daemon of
  its mode, and what is served after an open is what it was asked for;
- the scan and the selection together: what an application gets from an undisturbed
  scan is the strongest access point of the name it asked for, and its pointer stays good until
  a scan has filled the structure again;
- the settings: what is read back is what was written, and opening again with it
  changes nothing;
- ifrename: every interface gets the name `/etc/iftab` gives it, keeps it, and the
  pass ends, whatever the table says.

## 2. Modules

| Module | What it is | Code |
| --- | --- | --- |
| `Platform` | process table, pid files, streams on pid files; the daemons' own steps (external), `kill` | how wifi.c uses them |
| `Library` | what both modes share: a call as a sequence of steps `pc[c]`, writing a configuration, starting a daemon, the two halves of a close, the end of an application | wifi.c, includes/utils.h |
| `Service` | abstract: at most one session, one network each, closed before the next | |
| `Auth`, `StaConfig`, `ApConfig` | arguments to configuration, with defaults and ASSERTs | wifi.c:23-63, 94-230 |
| `StaMode` | station mode over `Library`; refines `Service` | wifi.c:12-77, 259-299, 343-347 |
| `ApMode` | access-point mode over `Library`, with the addresses of the interfaces; refines `Service` | wifi.c:79-258, 300-341, 348-352 |
| `WifiDevice` | both modes over one `Platform`, and an application that uses them in turn; composes `StaMode` and `ApMode` | wifi.c:12-352 |
| `ScanList` | `wifiGetAPList` and the supplicant's list | wifi.c:353-459 |
| `ScanSelect` | scans, and selections by `wifiGetAPInformation`, of one application, which keeps the pointer it got; extends `ScanList` | wifi.c:353-485 |
| `KeyValue` | how a line is split into key and value | utils.c:18-22, 54-59; wifi.c:404 |
| `ConfigText` | how a value is unquoted | utils.c:25-33 |
| `StaSettings`, `ApSettings` | structure, file and read-back, over any sequence of edits, opens and reads | utils.c, wifi.c |
| `IfRename` | ifrename: the init script's pass, the hotplug script, the kernel's renaming, interference | ifrename.c:468-631, 736-787, 1893-1920, 2040-2301, 2468-2721; iwlib.c:229-303 |
| `MC*` | the values of the constants for TLC; `MCSettings` runs either settings module | |
| `LibraryProofs`, `KeyValueProofs` | lemmas | |
| `StaModeProofs`, `ApModeProofs`, `ScanListProofs`, `SettingsProofs`, `IfRenameProofs`, `WifiDeviceProofs` | the theorems | |

State and code. `conf[d]` is the content of d's configuration file: one of
`Configs` (complete), `Empty` (just truncated by `fopen("w")`), `Torn` (two
callers' writes over each other) or `NoFile`. The content is written by the
`fclose` in one step, as it is shorter than a stdio buffer. `pidFile[d]` is the
number in d's pid file or `NoPid`. `stream[c][d]` is the stream a close holds;
`linked` says whether the file it is open on is still the one under that name.
`fds[c]` counts open streams, `waiting[c]` is the child that `system()` waits
for. `ret[c]` is what the last call returned, `call[c]` what it was called with.
`crashed`, `strays`, `disturbed`, `entry` and `origin` are history variables and
appear in no guard of the code's actions. `address[i]` in `ApMode` is the address of
an interface, and whether a command that sets one has failed.

In `ScanList` the answers of the queries are in `bssFile`, what a caller has still to
parse of them in `unread` and `field`, and the parse is a step per line, as each
line changes one field of the entry in work. A caller may have opened streams of its
own before a call, so that one that finds none left happens with few streams.

In `WifiDevice` the process table, streams and files are those of the modes' own
modules, whose actions it calls unchanged; new are the application's knowledge of
which `mode` it has open, and histories of whether its opens began with a closed mode.

In `IfRename` a name is a base and a unit (`eth`, 0) and a pattern may have `*` for its
unit. `ifname[d]` is the kernel's name of interface `d`; a process only ever holds
names, never `d`. One pass (`pc[p]`) lists the names, then for each of them reads the
selectors one system call at a time (`target[p]`), looks the new name up and
renames, takes over and tries again. `looked[p]`, the devices that were read, and
`aside`, those moved aside in the second pass, are history.

Each action is the code between two points at which something else can happen:
an `fopen`, a command, a `kill`, a return. `CallerStep` collects them. A
restart is a close and then an open, whatever the close returned, as in the code.

Definitions marked *Variant* are never used by a specification: each is a
plausible slip in the code (a file closed twice, the wrong pid path, a line not
read again), and replacing the original by it makes the property concerned fail,
which is how each property was seen to be about the code.

### What is assumed of the world around the library

- SIGTERM makes a daemon that has set itself up exit in its own time, and kills
  one that has not at once. A shutting-down supplicant or hostapd may or may not
  still hold its control socket, so its successor may or may not start.
- A pid file is written in one go, and read in one go.
- The kernel gives a number to a new process only after the process that had it
  is gone and no close is between reading and killing it: numbers wrap around
  much more slowly than one close takes.
- `sleep(1)` (wifi.c:73-74) is long enough for daemons to write their pid files.
- udhcpc's fork to the background keeps one process number in the model.
- A supplicant that runs on a complete network block may associate and get a
  lease; when and whether it does is up to the access point. No fairness is assumed
  of it.
- A command that `system()` runs may fail: a daemon need not start, and the interface
  need not get its address. An `ifconfig` that names no interface (wifi.c:240, when the
  caller left it to the default) always fails.
- `wpa_cli` prints nothing to stdout without a supplicant; the commands of a scan
  do start; the supplicant appends new access points to the end of its list.
- One process scans at a time (`OneCaller` in `ScanList`), and then the parse reads the
  file of answers as it was when it began. With two it would not: `fgets` reads again at
  its old offset, at the end of the file too, while the other process has truncated the
  file (wifi.c:379) and appends to it (wifi.c:396), so that what it reads may be parts of
  two answers. That is not modelled.
- An application looks at a structure whose count is within the array. In one that is
  used again the count can exceed it, and the loop of wifiGetAPInformation would read
  beyond the array.
- The kernel renames an interface that is down to a name that is free, completes `%d`
  with the lowest free unit, and returns the name it has given; `/proc/net/dev` is read
  in one go (some seven interfaces fit the stdio buffer). Names have a unit, and the
  names of one base never run out. One hotplug script runs at a time, one interface
  after the other, and without takeover, which the manual calls incompatible with it.
- The supplicant's rewriting of its own file (`update_config=1`) and the up and
  down of links are not modelled.

## 3. Runs

| Run | Instance | Checked |
| --- | --- | --- |
| `sta_one_caller` | 1 caller, 3 process numbers, 2 streams, a valid and an incomplete network; fairness | `TypeOK`, `CloseDownsSupplicant`, `ServiceSpec`, `CallsReturn`, `CloseTakesEffect` |
| `sta_faults` | 1 caller, 2 numbers, two networks and an incomplete one; crashes and kills | `StreamAccounting`, `SupplicantConfigured`, `PidInv` |
| `ap_one_caller` | 1 caller that may be killed and lets daemons settle between calls, 3 numbers, 3 streams, six sets of arguments (5 GHz, 2.4 GHz, rejected before and after writing, without DHCP, without an interface) | `TypeOK`, `HostapdConfigured`, `HostapdAddressed`, `CloseDownsAP`, `ServiceSpec` |
| `ap_two_callers` | 2 callers, 2 numbers, 2 streams each | `StreamAccounting`, `PidInv` |
| `device` | 1 application, 3 numbers, 3 streams, 2 networks and 3 access points, one without DHCP | `OneMode`, `NothingLeft`, `ServesAsked` |
| `scan` | 1 caller, up to 2 access points at once of 4 kinds, one with `=` in its name, an array of 2 entries, 2 streams, reused and new structures with zeroed and other memory, selections of 2 names between the scans, a supplicant that comes and goes | `TypeOK`, `QuietScanExact`, `EntriesWhole`, `VendorOwn`, `WithinCount`, `WithinArray`, `ListStreams`, `StrongestInRange`, `PointerKept` |
| `settings` | station mode: names of 10 and passphrases of 9 characters, with quotes inside; access-point mode: right and wrong versions (0, 2, 4), modes, channels | `SettingsInvSta`, `ReopenKeepsSta`, `SettingsInvAp`, `ReopenKeepsAp` |
| `ifrename` | 4 interfaces of which any may be missing, 5 tables, the init script with and without takeover, the hotplug script, 1 interference | `TypeOK`, `AllNamed`, `NamesKept`, `ReturnsName`, `EndNears` |
| `sta_restart` | 1 caller, 3 process numbers, 3 streams, the same networks; no faults | `RestartApplies` **fails** |
| `ap_static` | 1 caller, 3 process numbers, 3 streams, an access point with and one without DHCP | `OpenRunsHostapd` **fails** |
| `scan_reuse` | one caller, list changes only | `CountIsListed` **fails** |
| `sta_short_name` | a name of 3 characters | `ReadsBackSta` **fails** |

Why the bounds are enough. Three process numbers are an old daemon on its way
out, its successor, and a DHCP client or a stranger: the situations in which a
number is stale, reused or refused. Two of them suffice for a number to be
reused by a stranger while a pid file still names it, which is the case of `PidInv`
that says who may be signalled. Two streams are what one close needs, so one leaked
stream already makes the next close fail half-way; three let a close succeed
after a leak. Two callers are enough for every pairwise interleaving; the proofs
below are for any number. Two access points and one more kind are enough for an
entry to be replaced, to move up in the list, and to disappear. Process numbers
are interchangeable, and so are callers: those runs that check no liveness use
them as symmetry sets.

Four interfaces are two pairs that swap their names, with which the second pass has
to repair what the first has moved aside; the other tables are a cycle of three, two
interfaces that claim one name, a pattern for all interfaces of a driver with a later
line for one of them, and a mapping by the previous name. One interference (an
interface plugged in, pulled out, brought up or down) lets a name become stale or busy
between any two system calls of a pass, and lets the hotplug script run against the
init script.

Fairness is assumed in `sta_one_caller` only: the code of a call runs, daemons
that start write their pid file, and daemons that were told to stop do. Nothing
obliges an application to make a call, a daemon to fail, or an access point to grant a
lease. So an open need not return, with a wrong passphrase for one; `CallsReturn` says
that there is no other way to be held up: a call that never returns waits, from some
time on, for its own udhcpc, which runs and has no lease. That a pass of ifrename
ends needs no fairness: `EndNears` bounds the steps that are left to a process by
`Left`, which each of its steps lowers. Deadlock is not checked in `ifrename`: the
scripts are done at some point, and interference is bounded.

What the properties do not say:

- `CloseDownsSupplicant` is stated without faults: after a kill in the middle of an
  open the pid files need not name the supplicant that is up, and TLC finds the
  close that misses it. `CloseDownsAP` needs callers that let the daemons settle;
  hostapd itself is started last, so a kill of the caller does no harm there.
- `device` is about an application that lets daemons settle before it calls, and opens
  a mode only while the other is closed, as nothing else would keep them apart;
  `NothingLeft` also needs that each mode is opened only while it is closed itself, and
  `ServesAsked` that the close half of a restart has succeeded. Without those
  conditions TLC finds two DHCP clients of which a close kills one (wifi.c:71), and a
  restart that returns 0 with the old network up.
  For an access point `ServesAsked` is stated with DHCP only: what it is without DHCP is
  refuted by `ap_static`.
- `HostapdAddressed` lets hostapd come up without an address where a command that sets
  one has failed, as nothing looks at its result (wifi.c:247, 252).
- `PidInv` says nothing of the configuration file: two opens at once do start a daemon on
  a file that the other has truncated or overwritten.
- `QuietScanExact` has the names that contain `=` cut there, as wifi.c:404 does, and
  `StrongestInRange` is for lists without such names and for levels of a magnitude below
  1000, which is where the comparison starts (wifi.c:464). `WithinArray` holds while the supplicant lists no
  more access points than the array has entries; 256 is above the supplicant's own
  default limit, but the code does not check (wifi.c:386).
- `NamesKept` and `ReturnsName` except what a process does whose name is no longer that of the
  interface it looked at (`Stale`); there ifrename renames another interface.
  `AllNamed` excepts interfaces moved aside in the second pass, of which the manual says
  that they "may not be fully processed" (ifrename.8), and is for mappings that do not
  look at the previous name (`NoPrevname`), which the first pass changes under the second.

## 4. Where the code and its documentation disagree

Four runs refute what the repository says, see `findings` in PROJECT.json:

- `sta_restart`: wifiRestartSTA ignores a failed close and returns 0 with the old
  supplicant running (wifi.c:345);
- `ap_static`: with `dhcpEnable` 0 wifiOpenAP sets the address, runs no hostapd and
  returns 0 (wifi.c:243), where README.md:471 and 502 promise an access point whose
  stations set a static IP;
- `scan_reuse`: `memset(results, 0, sizeof(results))` clears a pointer's worth of
  bytes, so the count goes on from the last call's (wifi.c:382);
- `sta_short_name`: the read-back copies ten characters whatever the name, with
  the closing quote of a shorter one (utils.c:27).

Others were met while modelling, and are visible in the actions; no run is kept
for them:

- wifiOpenSTA does not return while udhcpc gets no lease (wifi.c:71), although
  README.md:457-459 has it return -1 on error;
- two opens start two DHCP clients, of which a close kills one (wifi.c:71);
- a wifiCloseAP right after a wifiOpenAP reads the number of the instance before
  and returns 0 with the new one coming up (wifi.c:254); wifiRestartAP ignores a
  failed close as well (wifi.c:350);
- whether the address could be set is not looked at (wifi.c:247, 252); with an empty
  interface hostapd runs on wlan0, but the command names no interface (wifi.c:240);
- a `wpa` of 0 or below is written to hostapd.conf (wifi.c:117), where README.md:496
  promises the default;
- a scan without a supplicant returns 0 with a count of -1; below debug level 1
  the header line is counted (wifi.c:391, in an argument of a macro);
- after a list that shrank, entries below the count are not filled (wifi.c:396);
- the vendor code of an entry outlives its access point in a structure that is used
  again (wifi.c:426); in a zeroed one it is its own (`VendorOwn`);
- two scans at once use the same two files (wifi.c:376-396), without a lock;
- a scan cuts a name at its first `=` (wifi.c:404), so that wifiGetAPInformation does
  not find it; an entry whose level has a magnitude of 1000 or more is not found
  either (wifi.c:464), where includes/wifi.h:214 promises the pointer;
- a value with `=` is cut when it is read back (utils.c:59); the vendor element is
  read into another field than the one an open writes from (utils.c:103), which is
  why `ApSettings` speaks of files that are the same but for the vendor code.

## 5. Theorems

All are proved by TLAPS for every value of the constants that satisfies the
modules' assumptions: any number of callers, process numbers, streams, argument
sets and configurations, with or without faults.

**`LibraryProofs`** has the lemmas both modes rest on: each step of `Library` and
`Platform` keeps `PlatformOK` (types and `PidInv`) and `StreamsOf`.

**`StaModeProofs`, `ApModeProofs`.** The inductive invariant is
`IInv == TypeOK /\ PidInv /\ StreamInv`.

- `PidInv` is needed because "the library signals no stranger" is not inductive:
  one must know that a pid file of a daemon that never crashed names that daemon
  (`PidFilesTrue`), which in turn needs that an open stream either still shows
  the present file (`StreamsCoherent`) or a number nobody else can have been given
  yet. From it `StaSignals` and `ApSignals`.
- `StreamInv` says at each label which of the two pid-file streams a close holds
  and how many streams its call owns; `StreamAccounting` follows from it
  (`StaStreams`, `ApStreams`).
- With one caller (`OneCaller`), `ConfInv` says that nobody touches the file
  between a caller's `fopen` and the start of its daemon. With it, `StaConfigured`
  and `ApConfigured`: the daemon only ever runs on a complete configuration of a
  valid call; and with the fact that at most one instance is up,
  `StaImplementsService` and `ApImplementsService`: every step is a step of
  `Service` or a stutter. Neither holds for two callers.
- `ApAddressed`: with one caller, hostapd only runs on an interface that has an address
  or for which a command that sets one has failed. `AddressInv` adds that this is so of
  the interface of a call from the command on (`Tried`), which no later step undoes.

- `StaCloseDowns`: with one caller that is not killed, and `ApCloseDowns`: with one that
  lets the daemons settle, a close that returns 0 leaves no instance up. Their
  `CloseInv` adds that an instance past its start is the one its pid file names
  (`SetUpIn`, `OwnFile`), that the stream of a close in work shows that number
  (`StreamTells`), and that after the kill nothing is left up (`NoneUp`).

**`WifiDeviceProofs`**, for one caller (`OneCaller`) that is not killed in the middle of
a call: with two, or with a call that ends halfway, the properties are false, as nothing in
the code keeps the modes apart. Daemons may crash, pid files may hold old numbers and
numbers are used again. The inductive invariant `DeviceInv` has, beside types and
`PlatformOK`,

- `CallInv`: where a call is, and what the application knows (`mode`, `closed`, `tidy`) then;
- `AllUp`: during a close no daemon is still setting itself up, as the application lets
  them settle;
- `HoldsOwn`: a call only holds streams on the pid files of its own mode's daemons, and at
  the labels `Reading(d)`;
- `DaemonInv(c, d)` for each daemon: one instance, its pid file names it, none is there
  while the other mode is in use (`Away`), none is up while its mode is closed or opened up
  to the step that starts it (`Before`), and the stream of a close names the instance, none
  being up after the kill (`Tells`). wpa_supplicant and hostapd have it always; the DHCP
  programs only while every open began with its mode closed (`Tracked`), since an open does
  not end an older udhcpc (wifi.c:71).

From it `DeviceOneMode` and `DeviceNothingLeft`. `DeviceServesAsked` adds `ServeInv`, which
carries the configuration from the arguments of the call to the file and to the daemon that
reads it; it has the conditions of `ServesAsked`: the mode was closed when the open began,
and an access point is asked for with DHCP.

**`ScanListProofs`**, for any arrays and lists and one process that scans. `ScanTypes` and `ScanStreams`
rest on `IInv`, which counts the streams a call holds at each label. `EntriesInv` says
what each entry has of the answer in work at each line, and that finished entries are
whole, from which `ScanEntriesWhole` and `ScanVendorOwn`. `BoundsInv` bounds the queries by the count and the entries by the
queries that were answered: `ScanWithinCount` and, for arrays as large
as the supplicant's list, `ScanWithinArray`. `QuietInv` follows an undisturbed scan
through the list: `ScanExact`, with `ValuePlain` of `KeyValueProofs` for the names that are
read as they are. Over `ScanSelect`, `SelectPointerKept`: `PointerAt` adds to
`PointerKept` that the structure stays as it was up to the second fopen of the next scan.
`FoundIsStrongest`: the loop of wifiGetAPInformation, a recursive function over the entries
(`Search`), finds a strongest entry of the name, for a list of any length. It is proved
without an induction theorem: of the steps at which the loop and its closed form `Best`
differ there would be a least one (`Least`). "Beats the level it starts with" is part of
the statement: a level of a magnitude of 1000 or more does not. With it and `QuietInv`,
`SelectStrongest`: for lists whose names have no `=` and whose levels of that name are of a
magnitude below 1000, arrays as large as the list and a debug level of at least 1 (it is 2 in
wifi.h:39; at 0 the heading of the list is counted as an access point), what a selection
returns is a strongest of the supplicant's access points of that name, and NULL if and only
if there is none.

**`SettingsProofs`**: `StaReadsBack`, `StaReopenKeeps` for settings of the lengths the read-back copies (`AllFit`), and
`ApReadsBack`, `ApReopenKeeps` for texts without `=` (`AllPlain`). The invariants
`SettingsInvSta` and `SettingsInvAp` say that the file on disk can always be read back
into a structure that stands for it, and that the structure at hand, unless edited,
does.

**`IfRenameProofs`**, for any interfaces, names and tables, and any interference.
`IInv` has three parts: the types; `Distinct`, that no two interfaces have one name,
which is what makes a name a handle at all; and `PlaceInv`, that between its steps a
process has a name at hand, has read the selectors in their order from the devices
in `looked`, and, on its way to a takeover, asks for another name than the present one.
`IfRenameKeeps`: a rename only hits the interface at hand, for which a name that matches
is not asked for, or the holder of a name that another interface claims, which cannot
be the right holder if names are claimed once. `IfRenameReturns`: the name that the
kernel filled in is what the interface has in the next state. `IfRenameEnds`: at most two
passes, of at most as many interfaces as there are, of at most six steps.
`IfRenameAllNamed` (interference excluded, as in the property) follows the init script
through its passes: no other process runs (`Alone`), what it has read is of the interface
that has the name at hand (`Sure`), the kernel will not refuse what it is about to ask for
(`Held`), and every interface is settled, or waits in the list of this pass, or a second
pass will come for it (`PassInv`). What an interface claims does not change, as the
mappings do not look at the previous name (`NoPrevname`). A takeover in the second pass is what
leaves interfaces aside. It is not assumed that names are claimed once.

Only model-checked: liveness (`CallsReturn`, `CloseTakesEffect`), which is
beyond this prover. The properties of the runs that expect a violation are false, and no
theorem states them. All other properties of the runs have a theorem.

## 6. Not modelled

- two processes that scan at once;
- more than 256 access points, malformed `ie` lines, texts longer than their
  fields, a NULL result structure in wifiGetAPInformation: the behaviour of the C
  code is undefined there;
- formatting, colours and wording of messages; printing;
- WPA-EAP beyond the lines it writes; the radio; DHCP beyond "a lease is granted";
- of ifrename: `-n`, `-D`, `-p` and the output for udev; how a line of `/etc/iftab` is
  split; selectors other than a MAC address, a driver and the previous name, which are
  read and compared in the same way; names without a unit and patterns with a suffix;
- iw and the rest of wireless_tools (iwlist, iwconfig, iwevent, iwgetid, iwpriv, iwspy,
  iwlib but for the enumeration of interfaces): they are vendored, the library neither
  links nor runs them, and they are straight-line translations between options, netlink
  or ioctl messages and text, without state that lasts or a second actor. By
  lines they are nearly all of the repository's C (some 52000 of 54000), so the share of
  it that is modelled is small although the library's own sources are covered;
- the build.

## 7. Plan

Done in this order: `Platform`, `Library`, `StaMode` with `Service`, `ApMode`,
`ScanList`, the settings; the proofs of the modes and of the settings; the steps of the parse and `ScanSelect`, the proofs of the scan
and of the closes, `WifiDevice`, `IfRename` and its proofs; the proofs of `WifiDevice`, of the
selection after a scan and of `AllNamed`.

What could follow:

1. Two callers of station mode: what the shared configuration file can become, and
   which guarantee is left (a supplicant on `Empty` or `Torn`).
2. A lock around each call, as an abstract specification of what one caller's
   guarantees need; which of them it restores for two.
3. Two processes that scan at once, with the file of answers read piece by piece.
