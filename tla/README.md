# Trust-E-OS in TLA+

Trust-E-OS runs two worlds on one ARM core with TrustZone. Linux, in the
nonsecure world, offers a GlobalPlatform-style client API (`tz_api`) over a
kernel driver (`tz_driver`). T-OS, in the secure world, is a small cooperative
kernel that runs trusted services as tasks. A monitor switches the core between
the two when one of them executes `smc`. These modules model that system, TLC
checks them on small instances, and TLAPS proves the main results for instances
of any size. Paths below are relative to `src/Trust-Eos/`; `t-os/` stands for
`t-os/src/`.

## 1. Inventory

| Component | Source | State it keeps | Operations |
|---|---|---|---|
| Page allocator | `t-os/core/tee_mem_mng.c` | bitmap of physical pages, index where scans start | init, `TEE_AllocPages`, `TEE_FreePages` |
| Heap | `t-os/lib/tee_bound_tag.c`, `tee_mmf.c` | HEAD and FOOT of every block, list of free blocks | `TEE_Malloc`, `TEE_Free`, `TEE_Realloc` |
| Scheduler | `t-os/core/tee_scheduler.c`, `tee_task.c`, `lib/include/tee_list.h` | `current_task`, ready and suspended list, TCBs | `TaskCreate`, `TaskStart`, `TaskSchedule`, `TaskHandleReturn`, deletion by id |
| Sessions | `t-os/core/tee_ta_interface.c` | service table, `list_opened_sessions`, the globals with the current parameters | open, close, invoke |
| Services | `t-os/apps/tee_string_task.c`, `tee_test_robust_task.c` | where each task's loop is | one turn: take the parameters, work, hand back |
| Main task | `t-os/apps/tee_main_task.c` | its place in the loop, `ret` | boot, dispatch of a command, return |
| Monitor | `t-os/arch/arm/armv7/monitor.c`, `monitor_asm.S`, `start.S` | `g_secure_context`, `g_nonsecure_context`, NS bit | launch, call, return, data abort |
| Driver | `tz_driver/tz_driver.c` | `tz_mutex`, per open file a client UUID, per call kernel buffers | open, close, ioctl for open/invoke/close session |
| Client library | `tz_api/jni/tz_api.c` | nothing of its own | the TEEC functions, conversion of parameters |
| Bare-metal client | `client/src/board` | as the driver, single-threaded | the same three calls |
| Flash store | `t-os/fs/yaffs_guts.c`, `yaffs_flashif.c`, `nand_flash.c` | pages of the NAND; per block state, pages in use, chunk bits; erased count, block in allocation; objects with header and chunks | mount and scan, write of a chunk, header update, truncate, delete, garbage collection |
| Name space | `yaffs_guts.c`, `yaffsfs.c` | objects, directories, hard links, the unlinked directory, handles | open, close, unlink, rmdir, mkdir, link, rename, mount, unmount |
| File data | `yaffs_guts.c`, `yaffsfs.c` | the short operation cache, sizes, positions of handles | read, write, lseek, resize, flush |
| Tnodes | `yaffs_guts.c` | the tree from a file's chunks to the flash's, pool of tnodes | put, find, delete, prune, soft delete |
| Codes | `yaffs_ecc.c`, `yaffs_guts.c` | the code beside each half page, the one in the tags | calculate, correct |
| Division | `t-os/lib/tee_div.c`, `client/src/lib/div.c` | none between calls | `__aeabi_uidiv`, `idivmod`, `uidivmod`, `uldivmod` |
| Formatting | `vsprintf.c` of T-OS and of the bare-metal client | place in the format | `sw_vsprintf` |
| Timer, RTC, console | `t-os/core/tee_timer.c` and board files | device registers | see section 8 |

How they interact. A client thread calls the library, which makes an ioctl; the
driver copies the request into kernel memory, takes `tz_mutex` and executes
`smc` with the address of the request in r1. The monitor saves the nonsecure
registers in `g_nonsecure_context` and resumes T-OS behind its own last `smc`,
in the main task's loop. The main task reads r1 from the saved registers and
calls one of three handlers. Open makes a SESSION and a TASK from the heap;
invoke leaves the parameters in globals and starts the session's task, which
runs until `TaskHandleReturn` switches back; close unlinks the session. The
main task stores the result as the saved r0 and executes `smc`; the monitor
resumes the thread, which releases the mutex and copies results to user space.

What is hard: there is one saved nonsecure context for all threads and one set
of parameter globals for all sessions; threads of one process share handles and
may close a session another is about to invoke on; a service's task is resumed
in the middle of its loop for every invocation; the lists are intrusive and
`ListDel` never returns when its node is not on the list; the heap runs out and
few callers look; the heap's list of free blocks is repaired by hand in four
cases. In the file system the power may go after any program or erase; chunks
are rewritten out of place and collected behind the writers' backs; counters
that the collector trusts are kept by hand; the same bytes may be in the cache
and on the flash; a file is unlinked, renamed or linked while it is open.
PROJECT.json lists these as hazards, each at its line.

The file system is linked into T-OS but `yaffs_StartUp` is called only from
`exp.c`, which is not built: nothing mounts it today. It is modelled as its own
entry points would drive it.

## 2. Modules

| Module | Models | Notes |
|---|---|---|
| `PageAlloc` | the page allocator | pages as numbers, the bitmap as the set of set bits |
| `BoundTag` | the heap | HEADs and FOOTs by word address, links as in memory |
| `TaskScheduler` | scheduler, task creation, lists | also a specification of its own (`SchedSpec`) |
| `TaInterface` | sessions, services, boot of the main task | extends `TaskScheduler`; operators only |
| `TzCall` | the call path from client thread to service and back | extends `TaInterface`; the system's specification |
| `SessionService` | what the client API promises | abstract: calls take effect at one instant |
| `TzCallRefinement` | `TzCall` implements `SessionService` | the refinement mapping |
| `ParamPath` | one call's parameters: client library, driver buffers, service, and back | a specification of its own; the order of calls is `TzCall`'s |
| `Monitor` | what becomes of every register at an smc, a task switch, a data abort | a specification of its own; when a call comes is `TzCall`'s |
| `Division` | the division routines, step by step | word width is a constant |
| `Formatting` | `sw_vsprintf` and its conversions | |
| `YaffsFlash` | chunks, blocks, allocation, collection, headers | operators on the device, no behaviour |
| `Yaffs` | calls on files over `YaffsFlash`, power cuts, mount | |
| `YaffsNames` | objects, directories, links, handles | the flash as one header per object |
| `YaffsCache` | bytes through handles and cache | the flash as an array of chunks that may refuse |
| `YaffsTnodes` | the tnode tree and its pool | |
| `YaffsEcc` | both codes and flipped bits | |
| `KernelProof`, `TzCallProof`, `ParamPathProof`, `MonitorProof`, `YaffsProof`, `YaffsCacheProof`, `YaffsNamesProof` | theorems and proofs | `KernelProof` is about `PageAlloc`, `BoundTag`, `TaskScheduler`, `Division` and `Formatting`, `TzCallProof` about `TzCall` and the refinement |
| `NumberLemmas` | lemmas on numbers and repeated application | for the proofs |
| `MC*` | instances for TLC | |

`MC` modules give constants values. `MCKernel`, `MCCall` and `MCFiles` also put
independent specifications side by side: their variable `part` says which one a
behaviour belongs to, and the others stand still, so a property of one is
checked exactly as in a run of its own. Definitions keep the source's names
where there is one (`TaskSwitch`, `TA_OpenSession`, `TZApiReturn`, `free_list`).
A definition introduced by a comment "Mutant:" is no part of the model: it is a
plausible wrong version of the definition after it, and shows that the
property it is paired with in PROJECT.json would notice.

### State and actions

*PageAlloc.* `used` is `phy_mem_bmp`, `first` is `first_valid_phy_bmp_index`;
`held` is what callers own. `AllocPages` and `FreePages` are the two functions.

*BoundTag.* Addresses and sizes count words. `head` and `foot` hold exactly the
HEADs and FOOTs of the present blocks; what a link that is followed to any other
place would find is memory the model does not keep, and the model stops there
with `fault = "wild"`. `Malloc`, `Realloc`, `Free` are the functions of
`tee_mmf.c`, each with the whole of the `BoundTag_` function behind it. `owned`
and `taken` belong to the properties.

*TaskScheduler.* Nothing preempts a task, so every operator is one
uninterrupted stretch of code up to and including the `svc` of `TaskSchedule`,
whose handler in `start.S` calls `TaskSwitch`. Only the order of the ready list
matters, so the suspended list is a set. `dead` records the ways T-OS ends:
`"hang"` for the endless loop of `ListDel`, `"wild"` for a write through a NULL
pointer or a stack that was not allocated. With `Pool = "limited"` any
`TEE_Malloc` may fail.

*TaInterface.* `session` and `open` are the SESSIONs made and the ids on
`list_opened_sessions`; `curParams`, `curCommand` are the globals of
`SetCurrentParams`. The commands of a service and the parameter types they
demand are abstracted to which service would accept an invocation.

*TzCall.* Per thread: `pc` in the driver, its request `cmd` (TZ_CMD_DATA), its
result `ret`, and `done`, whether a service carried the command out. `world` is
the NS bit, `nsCmd` the thread whose registers are in `g_nonsecure_context`,
`mainPc` and `mainRet` the main task's place and result. Actions: `Call`,
`Lock`, `Smc`, `Unlock`, `Finish` of a thread; `Boot`, `LaunchNonSecure`,
`Dispatch`, `RunService`, `TZApiReturn` of T-OS. While the core is in T-OS no
thread takes a step, because there is one core.

*ParamPath.* One thread's call, step by step: `Invoke` converts the operation
(`tz` is the TZ_Operation) and allocates tz_cmd_data, `CopyIn` is a round of
the driver's first loop, `Submit` sets `param_type` and makes the call, `Serve`
is what the service does to the kernel's copies, `CopyOut` a round of the second
loop. Every copy may fault instead (`HeaderFault`, `CopyInFault`, `OriginFault`,
`CopyOutFault`), and then the code leaves by the label the model leaves by:
`Held` is what `invoke_finish_1` frees, which depends on `param_type` and not on
what was allocated. `live` is what kmalloc gave and kfree did not get back.
A NULL operation is `given = FALSE`: `invoke_session` then reads a TZ_Operation
that nobody wrote, so `op` is any operation. `Open` and `Close` appear with
the blocks they allocate and free. TzCall says which calls are answered in
which order, this module what one call does to memory; they share no variable.

*Monitor.* `reg` is the core's 37 registers that OS_CONTEXT has, banks
included; `secure` and `nonsecure` are the two contexts as sequences of words,
written in the order of SAVE_CONTEXT (`SaveOrder`), read in that of
RESTORE_CONTEXT (`RestoreOrder`), and known to C by the order of the struct
(`Layout`). `Smc` is the handler's dispatch on r0, and `LaunchNonSecure`,
`CallTZFunction`, `TZApiReturn` are the code that comes to it. `TaskSwitch` is
the svc handler with `TaskSwitch` of the scheduler, through g_temp_regs.
`DataAbort` is an external abort of a nonsecure access to one of the registers
in `ro_mem`, decoded and carried out on the saved context; `OtherAbort` the
faults that the handler hangs on. Between these, code of either world writes
anything to its registers. `tosLeft`, `nsLeft`, `taskLeft` belong to the
properties.

*Division.* `Enter` is a call of one of the four routines with its tests before
the loop (zero, a smaller dividend, a power of two); `Recurse` the head of the
recursive function, `Shift` a round of its loop. `tee_div.c` and the client's
`div.c` have the same text but for the 64 bit routine, which only the client
has, and whose power-of-two test narrows the divisor (`Narrow`).

*Formatting.* An action per kind of character: copied, line end, number, other
conversion. `Hex`, `Octal` and `Decimal` are the digits that the shifts and the
subtractions of powers of ten write, with `keep_zeros` as `Kept`.

*YaffsFlash and Yaffs.* A `device` is a record; each operator is the function
of that name. `images` collects the content of the flash after every program
and erase, and `Finish` either ends the call or takes one of the images for
what a power cut leaves. `Create`, `Write`, `Flush`, `Truncate`, `Unlink` are
calls; `Mount` is `yaffs_Scan` with all that it repairs; collection runs inside
the calls, where the code runs it. `WithLuck` is what the NAND answers while a
call or a mount runs: any answer to the erases, of which the shipped driver
gives one, and a read that finds a flipped bit, or none. `may` is what the
files may be: what the callers were told, or, after a cut, also any stage of
the unfinished call. `spoiled` is the set of those of four things that have
happened which the code does not recover from (`Spoils`), each listed below.

*YaffsNames.* `vol` holds the objects, the children of each directory and the
links of each file, latest first as the lists have them; `hdr` and `stored` are
the flash. A hard link has two fields for its file: `equiv` is the number that
goes into the header, `to` the pointer that calls follow, which a mount leaves
NULL when it finds no such file. The collector may finish soft-deleted files inside any header update
(`luck.gone`), and any header may find no room. `upsets` says which of the
unrecovered things has happened.

*YaffsCache.* `io.lines` is `srCache`; a call may find any number of erased
blocks, which is what other files do meanwhile, and uses them up while it runs
(a block of one page), so that a flush may store its first line and be refused
the second. `ChangeHeader` is `yaffs_SetAttributes` without a size, or a
rename: a header is written and the data stays in the cache. `told` is what the
writers were told; `touched` the files whose header was written after their
data.

*YaffsTnodes.* `tree.tn` are the slots of tnodes as memory has them, so that a
tnode in two places is seen. *YaffsEcc.* Words are sets of set bits; a flip
happens between write and read.

*SessionService.* Threads call, are served at one instant, and return. An
invocation of a command that the service does not know may be answered either
way, because the code answers it with success although nobody wrote it to.

## 3. Runs

| Run | Expectation | Distinct states | Shows |
|---|---|---|---|
| `kernel` | pass | 143,531 | the parts of T-OS that others call, each in every order of its calls: no TCB is linked twice or lost, and the ready list is served unless the main task keeps the processor; pages and heap are shared by nobody and nothing is lost; divisions are exact; numbers are written as they are |
| `tzcall` | pass | 2,160,884 | three threads, two processes, a pool that may refuse any request: calls do not disturb each other, services run only for the caller's request and session, no two sessions share a task |
| `refinement` | pass | 332,754 | `TzCall` implements `SessionService`; a known command answered with success was carried out; a thread that entered T-OS gets its answer |
| `call_contents` | pass | 88,050 | whatever copy faults, nothing is freed twice, the copies of outputs are reclaimed, outputs arrive whole and in order, inputs are not written; through any order of calls, task switches and emulated loads T-OS, client and tasks go on with their own registers, but for the client's r1 and r2 |
| `yaffs` | pass | 136,556 | a mounted file reads as its writers were told, through collection, any answers to erases and a power cut after any program or erase; the counters are exact; trees own their pages; a retired block is never used again |
| `names` | pass | 120,733 | names, links, handles and the flash agree through unlink of open files, renames, hard links, refused headers, cuts and remounts |
| `files` | pass | 531,505 | bytes come back through the cache and a full flash; the tnode tree is the map it stands for while tnodes run out; both codes correct what they promise |
| `heap_shared_block` | violation | 1,363 | once the free list was lost, a block that a caller holds is handed out again |
| `division_64` | violation | 779 | the 64 bit division looks at the low word of the divisor only |
| `bad_command` | violation | 1,076 | a command nobody knows is answered with success |
| `abort_registers` | violation | 14 | after an emulated load the client goes on with r1 and r2 overwritten |
| `erase_retires` | violation | 4 | without any fault of the flash, a file is made and unlinked and its block is given up as failed |

The five violations are findings; PROJECT.json quotes the comment, or the test
program, that each contradicts. In short: `TaskHandleReturn` drops the service's
result; `BoundTag_Alloc` forgets the free list when it takes its head whole; the
monitor sets the SCR through r1 and r2 after it has restored them, on the way
back from an emulated load too; `is_power_of2` and `get_power_of2` narrow a 64
bit divisor; `nand_flash_erase_block` answers 1 whatever happened, and
`yflash_EraseBlockInNAND` takes any answer but 0 for failure, so that every
erase retires its block. As shipped, the store therefore loses a block with each
collection and is full for good in the end; the run `yaffs` has both answers, in
any order, so that what it shows is true of this driver and of one that is put
right. Of free room nothing is promised, since with this driver there is none.

### Weaknesses met on the way

The models have these without a run of their own. Where one would make a
property fail, the property names the condition.

Kernel and driver:

- A heap block taken whole from elsewhere than the list's head gets NULL links,
  which `TEE_Free` takes for a bad address: it loops (`fault = "spin"`).
- With no memory for a TASK, `TaskCreate`'s -1 is stored as the session's task;
  open and every invocation report success and nothing runs.
- No code frees the TASK of a closed session, and `TaskDelSuspudByID` searches
  the ready list for it, where it is not, so that it also stays suspended.
- `TEE_AllocPages` is not first fit, as its comment has it: a request that skips
  a hole moves the scan index past it, and a later request may fail although
  the hole would do.
- The driver never frees the kernel copies of references that are inputs, nor
  those made before a fault in the first loop (`OutputsReclaimed` states exactly
  which blocks may be lost), looks at no result of kmalloc, and writes sizes
  back that no service has changed. `TEE_Realloc` frees nothing.
- The abort handler decodes the wrong word when the faulting load is the last of
  its page (`DataAbort` with `onePage` FALSE), and leaves the EA bit set while
  T-OS runs. It asks for bits 20 and 22 alone: LDM, LDRH and loads with
  writeback are carried out as LDR or LDRB, with a wrong register, size or base
  (`monitor_exception_handler.c:145`). `DataAbort` does to the registers what the
  handler does with any instruction that has bit 20 set; `AbortPrecise` says that
  this is what an LDR or LDRB into r0 to r12 should do, and nothing of the others.
- `TA_CloseSess` leaves out `TEE_Free` of the SESSION, which loops for ever when
  the block was taken whole from within the list (above). Whether that happens
  depends on every allocation before it; it awaits the heap composed with T-OS's
  own allocations (section 9).
- `__aeabi_uidivmod` returns the remainder in r0, where the ABI has the
  quotient; `__aeabi_idivmod` takes negative operands for unsigned ones; a
  divisor 0 hangs the routines that return a remainder.
- `%u` from 2^31 on and `%d` of INT_MIN come out as garbage, a format that ends
  inside a conversion is read on behind its end, `%` before a line end writes
  the line end twice, and `print_buffer` has no bound.

File system:

- The last block is never erased, though `endBlock` is in use.
- The scan never sets an object's serial, so which of two headers wins is
  arbitrary; an object whose older header was in the unlinked directory keeps
  `deleted` set although it is back in the root.
- A duplicate chunk found in the block being scanned is marked deleted on the
  flash and stays counted: collection copies the dead page.
- `yaffs_ResizeFile` compares a chunk with 32 times the block numbers where a
  block has 64 chunks: beyond that the chunk is forgotten and not deleted, and
  comes back with the next mount or collection.
- The collector drops chunks of deleted files without a mark on the flash, so
  that a cut leaves data that the scan takes for a file. Of a file in the root
  that is marked deleted (above) it drops them while the file's tree still points
  at them: if the collection then fails before it erases the block, a truncation
  counts a page out of use a second time. `BlocksAccounted` leaves that case out.
- `yaffs_UnlinkFile` does not look at the header write's result.
- yaffs corrects the data itself: `yaffscfg.c` sets `useNANDECC` to 0, and
  `yflash_InitialiseNAND`, which would set it, has no caller. A flipped bit that
  was put right marks the block for retirement as one that could not be does
  (`HandleReadDataError`); what a reader then gets of a page with two flipped
  bits is left to `YaffsEcc`. A flipped bit in the tags' own code spoils a good
  tag bit.
- A write that the cache took may be lost when the flash is full at the flush;
  writing a header clears `dirty` with the data still in the cache, and then a
  close flushes nothing; unmounting flushes nothing; a refused write past the
  end makes the file longer.
- `yaffs_open` takes directories and hard links as they are, and its loop over
  the handles reads one past their end; `yaffs_GutsInitialise` sets `isMounted`
  before it has succeeded; a rename moves the object before its header is
  written; a file with links that is unlinked is unhooked before the rename
  that may fail; a cut between that rename and the link's deletion leaves two
  objects with one name; renaming a directory into itself is not refused.
  `Denied` has none of the tests of mode and permission
  (`yaffsfs.c:357-374`), as for objects made readable and writable.
- A scan that finds no header for a parent makes a directory of that number in
  lost+found and puts the child inside (`yaffs_guts.c:4255`); `Parent` puts the
  child itself in lost+found. It happens only after a refused header or a cut
  within a call, and `upsets` has noted that.
- Deleting a file without chunks frees the top tnode only; growing a file raises
  the level even when there is no tnode for it; pruning follows a NULL top.

## 4. Bounds

- `kernel`: *pages* 8, 2 of them the image's, runs of 1 to 3: three separate
  holes and a run that spans a whole hole fit. *Heap* 33 words, requests for 1
  and 4 words, at most 4 blocks held: all four cases of the merge occur, blocks
  taken whole at the list's head and elsewhere, lists of up to three blocks.
  *Scheduler* the main task and five others, any of which may be made without a
  TASK or stack; the order on the ready list matters for up to three.
  *Division* words of 3 bits and double words of 6, every pair of operands: a
  divisor above half the word, a double word whose low word is a power of two
  and whose high word is not 0. *Formatting* a word of 8 bits, every value,
  each conversion with and without padding, before each kind of ending.
- `tzcall`: two threads of one process, where handles are shared, and one of
  another; two sessions; a pool with room for two tasks of the services' that
  may still refuse. A third session changes no more: a close, an invocation and
  an open can overlap on the two.
- `refinement`: two threads of one process, two services, an ample pool.
  Liveness keeps the instance small.
- `call_contents`: *parameters* two of them over two buffers that may be the
  same one, of every kind and direction, with sizes 1 to 3 around an answer of
  2 cells. A second parameter is what a fault can come before or behind; the
  loops treat a third and fourth as the second. *Registers* one service task
  beside the main task, loads into r1, which the monitor clobbers, and r3,
  which it does not. Two different words a client may leave in each register,
  so that those of an earlier call are told from the last's.
- `yaffs`: blocks 6 to 16, of which six are bad from the factory (the code
  wants ten blocks), so that five of two chunks are left and collection,
  reserve and a full device come within seven calls. Two reserved blocks, the
  code's least. One page that takes no program, one read that marks its block,
  in a call or in a mount, one cut. The erases of each call or mount are
  answered alike, well or as a failure, with no bound on how many calls see a
  failure. Two objects and one name: a name is used again while its former file
  still is deleted softly. `DaftFactor` 1 to two chunks a block is 32 to 64.
- `names`: three objects, two handles, two names, six calls, one cut. A file,
  its hard link and a directory; a file under two handles; a link that becomes
  the file.
- `files`: *cache* two files under two handles, chunks of two bytes, two lines,
  two chunks a file, six calls: both lines dirty for different files, a line
  pushed out by the other file, the use counter's wrap (`UseLimit` 2), up to
  three erased blocks at the start of a call, where one is the reserve.
  *Tnodes* four slots at level 0 and two above, chunks 1, 5, 8, 14 that need
  one to three levels, eight tnodes made two at a time, five calls. *Codes*
  eight data bits, tags of 16, two flips.
- `erase_retires`: the instance of `yaffs` without a weak page, faults or cuts,
  and with the one answer that the driver gives.
- Violation runs use the smallest instance that shows the violation, or the
  bounds of the run beside them.

Bounds that stand in guards or domains, by module: `MaxRun`; `Sizes`, `MaxOwned`;
`MaxTasks`, `MaxSessions`; `Formats`; `MaxCalls`, `MaxCuts`, `MaxFaults`;
`MaxOps`, `MaxOuts`; `MaxSteps`, `MaxChunks`, `MaxFree`; `ChunkIds`, `NandChunks`,
`MaxTnodes`, `MaxCalls`; `Pages`, `TagSets`, `MaxFlips`. Proofs hold for any
value of those in the modules they are about.

## 5. Fairness

`TzCall`: `WF(Secure)`, because the core executes T-OS and nothing interrupts
it; `WF(Smc \/ Unlock)` for each thread, because Linux lets the thread that has
the mutex go on; `SF(Finish)`, because a thread past the mutex gets the core
between the calls of others although each call takes the core from it. A thread
may wait for the mutex for ever and a client need not call, so no fairness is
assumed of `Lock` and `Call`.
`SchedSpec`, and `KernelSpec` for its scheduler: `WF(Yield)`, a service that runs
sooner or later hands the processor back, as both services do at the end of
every turn. `Yield` is of the services only: the main task never calls
`TaskHandleReturn`, it leaves by `TaskStart` or by `smc`, and nothing obliges it
to. `ReadyRuns` therefore lets it keep the processor for ever, and promises a
ready task its turn otherwise; that the main task's callers do make progress is
`CallAnswered`. All other specifications are of safety only: their steps are calls
that nobody need make.

`CHECK_DEADLOCK FALSE` stands where the system does stop: after a write through
NULL or an endless loop (`dead`, `fault`, `halted`), at a format's end, after a
division, and where the bound on calls is reached.

## 6. Proofs

All theorems hold for every value of the constants; the assumptions are those
named in the modules (`SchedulerAssumption`, `TaInterfaceAssumption`,
`TzCallAssumption`, `PagesAssumption`, `HeapAssumption`, `ParamAssumption`,
`MonitorAssumption`, `DivisionAssumption`, `FormatsAssumption`,
`CacheAssumption`, `DeviceAssumption`), which TLC evaluates
in the runs. The modules' `TypeOK`s
are parts of the inductive invariants; they are proved, and no run's property.

*KernelProof, pages.* `PagesInv` is `TypeOK`, `RunsDisjoint`, `BitmapExact` and
`OutsideImage`. Each needs the others: a run found in clear bits is disjoint
from those held only because the bitmap is exact, and freeing keeps the bitmap
exact only because runs are disjoint. Theorems: `PagesInvariant`,
`PagesNeverShared`, `PagesNeverLost`.

*KernelProof, heap.* `HeapInv` is
- `HeapTyped`;
- `BoundaryTags`: a HEAD's size leads to its FOOT and the FOOT back, the blocks
  between them cover the pool;
- as long as nothing took the block at the list's head whole (`~taken`),
  `ListExact`: the list is one circle of exactly the free blocks, no two of
  which are neighbours; and `HeldApart`: no two callers share a block.

`BoundaryTags` is needed to know what `Free` finds at its left and right, and
`ListExact` that a scan from the head comes to every block that might fit and
ends. That the list is one circle is an induction over data, which is said with
sets here (`Ring`): `next` and `prev` undo each other, and no part of the free
blocks but the whole is closed under `next`. A scan is then a function iterated
(`NumberLemmas!Iterate`, from least elements) which cannot stay off a block for
more steps than there are blocks. The four merges of `Free`, the split and the
whole block of an allocation each keep the circle by a lemma of their own. The
invariant says nothing of the list once `taken`, since then it is lost: that is
the finding of `heap_shared_block`. Theorems: `HeapInvariant`, `PoolStaysExact`,
`BlocksHeldApart`.

*KernelProof, scheduler.* `SchedInv` is the type invariant and `Apart`: the ready list
holds each task once, and no task of it, nor the running one, is suspended or
runs besides. The work is in `TaskSwitch`, which keeps the places apart whenever
it is entered with lists that are; every call but creation and deletion ends in
it. The callers are more liberal than T-OS's: they start any task, and
delete any but the main and the running one, at any time, and the pool may run
out. Theorems: `SchedulerInvariant`, `TasksInOnePlace`.

*TzCallProof.* `IInv` is the conjunction of
- `TypeOK`;
- `SecureWorldOwned`: mutex, pc and saved context agree on the one call;
- `Phase`: what the main task's place says of world, current task and ready
  list (the ready list is empty when the main task runs, and holds just the main
  task when a service runs);
- `PoolLasts`: with an ample pool nothing is without a stack and T-OS is not
  dead;
- `RunsForCaller`, `SessionsOwnTasks`;
- `Placement`: a task that is linked is linked once.

`ParkedInMain` follows and is not inductive by itself: that the ready list is
empty when the next command arrives depends on the service having switched back
to the main task, which depends on `Phase`; `RunsForCaller` depends on the
session's task being suspended when it is started, which is
`SessionsOwnTasks`. The induction has a lemma per action. Theorems:
`TzCallTyped`, `OneCallInTos`, `NeverHangs`, `ServiceRunsForCaller`,
`TasksOfSessions`, `CallsIsolated` (an action property, from `IInv` on both
sides of a step), `HandlesOwned` (with the invariant `HandlesInv`, that an
answered open carries an id of the caller's).

*TzCallProof, refinement.* The above says what T-OS does with a request, not which
requests come. `RInv` adds that: a close or an invocation names a session of the
caller's own (`OwnRequests`, from `HandlesInv` and because sessions are never
renamed), so that T-OS's search for id and client finds one exactly when it is
open; every session has a task (`TasksMade`), a service runs only after the main
task has noted success (`Serving`), and `KnownDone` is the promise itself, for
answers that are still in T-OS as well. With it, each action is simulated: `Call`
and `Finish` are `Call` and `Return`, `Dispatch` or `RunService` is the instant
at which the call takes effect, all else does not show. Assumption `~MayRunOut`:
the pool does not run out; where it may, the weaknesses of section 3 make the
promise false. Theorems: `KnownCommandsDone`, `CallsAreLinearizable` (initial
states and steps, that is all of `Implements` but the fairness that
`SessionService` states of `Return`).

*ParamPathProof.* `Inv` is `TypeOK`, `FreedOnce`, `OutputsReclaimed` and
`Blocks`, which says for each stretch of the call what is live: while the first
loop fills (`Filling`), exactly the references already passed; once `param_type`
is set (`Submitted`, `Passed`), every reference but the outward ones the second
loop has passed, and those alone have a NULL pointer. So what the labels at the
end free is always live, and what they pass over is an input. That a fault in
the first loop frees no copy rests on `param_type` still being clear.
`Converted` (no WHOLE direction after the conversion) is needed because the
second loop and the labels ask for OUT or INOUT only. Theorems:
`ParamTypeCorrect`, `NeverFreedTwice`, `OutputsAreReclaimed`.

*ParamPathProof, delivery.* `DInv` adds to `Inv` where the client's data is (`Delivery`):
until the service has run, user memory and the kernel's copies agree (`Copied`);
while the second loop runs, the copies of the outputs still to be returned hold
what the client is to find, and the user's memory there is as it was (`Pending`);
those behind hold it (`Arrived`). `Converting` ties the driver's directions to
the client's, so that the loops return exactly the declared outputs. The
delicate steps are the service's, which turns each copy into what is wanted, and
the write of one output, which leaves the others alone because no two of them
share a buffer. Theorems: `OutputsInOrder`, `InputsUntouched`.

*MonitorProof.* `IInv` is `TypeOK` and, for whoever does not have the core,
that its registers are in memory: `TosKept` while the client has it,
`ClientKept` while T-OS has it, `TasksKept` for the tasks that do not run. The
one lemma behind all is `RestoreSave`: RESTORE_CONTEXT undoes SAVE_CONTEXT,
whatever the registers hold, because both go through the modes in one order.
`SetFieldType` adds that a C assignment to a field changes that register and no
other, which needs the struct to have that order too. Theorems: `MonitorTyped`,
`CallersRegistersKept`, and the action properties `TosGetsItsRegisters`,
`ClientGetsItsRegisters`, `TasksGetTheirRegisters`, `LoadsAreEmulated`.

*KernelProof, division.* `IInv` is, beside the types, `Recursing` (what was taken off the
dividend so far is `acc` times the divisor: a = acc * b + dividend) and
`Shifting` (tmp = res * b, no more than the dividend), and that a routine that
is done returned the quotient or the remainder. That no variable leaves its word is a consequence: acc + res
never exceeds the quotient (`QuotientBound`), and the test of the highest bit
keeps the shift from losing one (`WordTops`). The exception of the 64 bit
routine is in the property, exactly as the code narrows. Theorem:
`RoutinesDivide`, for words of any width.

*KernelProof, formats.* `FormatInv` is the types and `ReadsFormat`. A step goes
on behind the letter that `AfterPad` finds, and that lies within the format or
there is no letter left (`LetterWithin`). Theorem: `FormatsAreRead`, of any set
of formats.

*YaffsCacheProof.* `CacheInv` is
- `Sound(io)`: the types; no chunk is in two lines; a line that is not dirty has
  what the flash has; behind the byte count of a chunk, on the flash or in a
  dirty line, there are zeros;
- `Told`: each byte that is seen, in a line or on the flash, is what the file's
  writers were told, and 0 behind the file's end;
- `OwnersKnow`: a file with a dirty line is open and its object marked dirty,
  unless its header was written since or it lost data.

The zeros are what a write behind the end, a cut and a mount rely on: a mount
finds a file's end from the byte counts, and a line that grew carries the larger
of its own end and the file's. That two lines never hold one chunk rests on
`InCache` loading only what `FindChunkCache` did not find, after an eviction
that may have flushed another line of the same file. The code is a chain of
operators on `io`, and each link has a relation that says what it leaves seen:
`Keeps` (flush, eviction, load, read), `Writes` and `Took` (pieces of a write),
`Grown` (a write), `Resized` (a cut), `Stored` (chunks of a file that no line
has). A flush empties a line with each step, so that as many steps as there are
lines leave no dirty line, or the file lost data; the loops over pieces go by
`NumberLemmas!Upwards`. Also proved on the way: what a read returns is what is
seen (`ReadKeeps`). Theorems: `CacheInvariant`, `FilesReadBack`,
`ClosedFilesAreFlushed`. They hold of the cache over the flash as this module
has it; that `Yaffs` provides such a flash is model-checked there.

*YaffsProof.* `DeviceInv` says, unless a file in the root is marked deleted, of a
mounted device `Intact` and `Named`, and of an unmounted one `Flash`:
- `Flash`, of what is on the pages: a block without a bad mark is written from
  its first page on and erased behind that, and at most one such block is
  written in part. It is true of every image that a power cut may leave, and
  that is why it knows nothing of objects and counters.
- `Sound`: every block's state says how far it is written (`Stated`), its
  counter is the number of its pages in use, the one block in allocation is the
  one that has that state (`Counted`), and `erased` counts the empty blocks.
  Between the allocation of a page and its program `Sound` has a hole there.
- `Intact`: `Sound` without a hole, no block unknown, and for every object
  `Points`: header and tree lead to pages in use, which the object owns and
  which are live unless a deleted page was copied. As long as truncation forgot
  no chunk, nDataChunks counts the tree.
- `Named`: an object that a call can find has a header.

`Counted` is not inductive without `Points`: a page counted out twice makes a
counter too small, and it is counted out when an object lets go of it, so no
object may point at a page that is out of use already. And `Points` needs
`Counted`: a block whose last page goes is erased, and no object may point into
it. The hard part of a call is the collection inside it, which moves the pages
of other objects while the call has one of its own under way: relations between
the device before and after (`Lasts`, what pages in use do; `Kept`, `OneLeaf`,
`Counting`, what becomes of objects) carry each operator's effect over the next.
For a mount, `Midst` says what is true with the blocks below `b` scanned and `k`
pages of `b` read: those were written, and no page that was not read is in use,
so that nothing points at one. A page that disputes another's place gets one of
the two marked deleted. What a scan makes of any `Flash` is `Intact`, for any
answers to its erases. Theorems: `DeviceInvariant`, `CountersAreExact`,
`TreesAreOwned`, for any sets of files, blocks, weak pages, values and answers,
and any number of cuts and faults.

*YaffsNamesProof.* `NamesInv` has parts, by what the history was:
- unless an open directory or hard link was deleted (`"stray"` in `upsets`) and
  while mounted: `Basic`, the types, the state of each object (an unlinked object
  is in the unlinked directory, a deleted or soft one is unlinked), and that the
  lists hold only what belongs on them; `HandlesFit`, which counts the handles of
  every object; and `Ripe`, that an unlinked file is deleted exactly when nobody
  has it open;
- with the same exception and while unmounted, that nothing is left in memory and every header is one that
  the program writes;
- as long as nothing went wrong at all (`upsets = {}`): while mounted,
  `Exact(vol, {})`, that every object is on the list of its directory, has a
  name that no other object there has, leads to its file if it is a link, and has
  the header that says so; while unmounted, `FlashExact`, the same of the headers
  alone.

The difficulty is that a call is a chain of header updates, each of which lets
the collector finish soft-deleted files and may be the last before a power cut.
So `Basic` is kept by every operator of the chain, and asks of every image taken
on the way that its headers make sense, because a mount may start from any of
them. `Exact` is not true in the middle of a call: its second parameter is the set of the
objects that the call has half changed (`Exact(v, {i})` while `i` is being
renamed, unlinked or deleted), and each call is shown to come back to the empty
set or to have noted what went wrong. `Unlink` of a file with links is the
hardest: the latest link gives its name and place to the file and goes. For a
mount, `ScanAll` says what reading headers in any order leaves: parents that come
after their children, links that wait on `hardList` for files not read yet.
`FlashExact` then gives back `Exact`, and a damaged flash still gives `Basic`.
`AmongElements` and its like do the induction over lists once for all operators.
`HandlesAlive` needs only the first part, `NamesFound`, `FlashAgrees` and
`LinksKept` the last. The one assumption is `NamesAssumption`: the objects
and the handles are finite sets, and no object is one of the fixed directories
or has the number or the name that stands for none.

The proof corrected the model twice: the arms of the worker of `Unlink` overlapped,
which left open which of them applies where the code asks in a fixed order; and a link
whose file a mount did not find lost the file's number in its next header, where
the code keeps the number and loses only the pointer. Theorems:
`NamesInvariant`, `FilesStayOpen`, `NamesAreFound`, `FlashAgreesAlways`,
`LinksAreKept`.

## 7. Only model-checked

- Liveness (`CallAnswered`, `ReadyRuns`) and, of the refinement `Implements`, the
  fairness of `SessionService`.
- What the conversions of `Formatting` print (`NumbersShown`): sums of powers,
  an induction over data.
- Of the file system: of `Yaffs`, what a file's pages hold (`ReadsKept`) and that
  retired blocks stay aside (`RetiredStaysRetired`); `YaffsTnodes`, `YaffsEcc`. The
  recursion down the tree and the bitwise code are out of the prover's reach.

## 8. Not modelled

- Of the file system: symbolic links and special files, attributes and times,
  renaming in lost+found, `yaffs_readdir`, `yaffs_DumpDevStruct`; code under
  options that the build leaves off (wide tnodes, Windows CE, the device's own
  ECC); bytes that are put together across a page (chunks are values or a few
  bytes).
- String, character and console functions: loops over bytes without state.
- Registers of cp15 and VFP, which the monitor does not save, and an abort of
  T-OS's own, which the EA bit would bring to the handler for the client's.
- Timer, RTC, MMU and cache set-up: register I/O. That `flush_cache_all` comes
  before `mutex_lock` is listed as a hazard without a property.
- `tee_session.c`: not built.
- Opening and closing of the device file (`tz_open`, `tz_release`).
- The bare-metal client's call path, which is the driver's with one thread.
- A kmalloc that fails: the driver looks at no result and goes on to write
  through the NULL pointer, which ends the call in an oops of the kernel.
- Which letters a service writes: upper case, lower case, the robust service's
  answer are told apart, and no more.
- Address translation of the client's pointers (`map_from_ns`).

## 9. Plan

Done: every component of section 1 but for what section 8 lists, and the proofs
of section 6. What is left, in the order of its worth:

1. Proofs of `ReadsKept` and `RetiredStaysRetired`, from the invariant of
   `YaffsProof`.
2. `tz_open` and `tz_release` as clients of `TzCall` (sessions that outlive the
   process), and the cache that is flushed before the mutex is taken.
3. The heap composed with T-OS's own allocations (SESSION, TASK, stack), in
   place of a pool that may refuse anything; sizes near 2^32.
4. `YaffsNames` over `YaffsFlash` as a refinement, in place of the assumption
   that a header is replaced as a whole or not at all.
5. Symbolic links and `yaffs_readdir` against a directory that changes.
