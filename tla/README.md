# A TLA+ verification project for Hvexec

Hvexec runs a statically linked macOS executable inside a bare virtual machine
of Hypervisor.framework and serves the system calls the executable makes. This
directory models the parts of it that keep state and make decisions, checks the
models with TLC on small instances, and proves all their safety properties, and two
refinements, with TLAPS for every value of the constants.
Paths below are relative to the repository; `x.c` without a directory means
`src/x.c`.

## 1. The system

`hvexec` is one host process with one thread and one VCPU. There is no
concurrency between host threads. The actors are the host's straight-line code
and run loop, the guest program the processor executes, the events that
interrupt the guest (time slices, NMIs), Hypervisor.framework and the host's
allocator, which may refuse a request, and a plugin, whose callbacks decide who
answers a system call.

| component | state | operations | used by |
|---|---|---|---|
| memory map (`vm_mem.c`) | the sorted list `mem_regions`; behind it the framework's second-level table and the host's blocks | `find_free_mem_region`, `map_gpa`, `vm_mem_alloc`, `gpa_to_hva` | everything that touches guest memory |
| page tables (`vm_mem.c`) | `pml4`, the tables in guest memory | `vm_mem_init`, `map_gva`, `gva_to_gpa`, `vm_mem_read`, `vm_mem_write`, `vm_mem_verify` | main, loader, run loop, system calls |
| loader (`loader.c`) | none of its own | `load_raw` (the boot kernel), `load_mach_obj` (the application) | main |
| VCPU (`vcpu.c`) | registers and VMCS fields of the VCPU | `vcpu_setup_ia32`, `push64`, `vcpu_run` | main |
| emulation (`emu.c`) | writes registers, EFER, CR0, entry controls | `emu_rdmsr`, `emu_wrmsr`, `emu_mov_cr`, `emu_cpuid` | `vcpu_run` |
| system calls (`emu_syscall.c`) | `syscall_interactive`, and with `-i` the buffer of standard input | `emu_syscall` and one function for each of read, write, open, close; a prompt before each call in interactive mode | `vcpu_run` |
| plugins (`plugin.c`) | the callback table `_ops` | `load_plugin`, `get_plugin_ops` | main, system calls |
| Mach-O parser (`macho_parser.c`) | a position in a file | `read_entry_point_cmd` and the readers below it | loader |
| main (`hvexec.c`) | exit status, what is set up so far | option parsing, set-up in order, argument layout, clean-up labels | |
| boot kernel (`boot.asm`) | control registers of the guest | the way from protected mode to long mode and to the application | runs in the guest |
| logging (`logging.c`) | a level and a file | output | everyone |

How they meet: `main` calls `vm_mem_init` (sixteen low pages, identity mapped),
`vcpu_setup_ia32` (which writes the descriptor table into page 0), `load_raw`,
`load_plugin`, `load_mach_obj` (the file at 4 GB, guest-physical and
guest-virtual) and then stays in `vcpu_run` until the guest halts or a handler
gives up. The guest has no handler for `syscall`: the instruction leaves its
return address in `rcx` and ends in a triple fault, which the default case of
`vcpu_run` recognises by the two bytes in front of `rcx`.

What is hard in it, and which property looks at it, is the list `hazards` of
`PROJECT.json`. In short:

* *Failure half-way.* `map_gpa` undoes a mapping when it cannot allocate a list
  node; `map_gva` does not look at the results of three of its four
  allocations; a refused system call ends the run after `rip` was moved.
* *Order.* Page tables are built top-down and shared by successive calls; EFER,
  CR0 and the VM-entry controls are three separate writes that VM entry checks
  against each other.
* *Stale values.* `rcx` outlives the system call it belongs to; `gva_to_gpa`
  uses one variable for all four entries and looks at no PRESENT bit.
* *Numbers.* Unsigned ends of ranges that wrap; gaps of exactly the size asked
  for; fixed instruction lengths.
* *Progress.* Handlers that resume the guest without moving `rip`; a walk over
  load commands whose sizes come from the file; a prompt that waits for input.
* *Places that meet.* Descriptor table, stack, task segment, argument table,
  strings, kernel and page tables lie behind each other at fixed addresses and
  nothing compares their sizes; the boot kernel pops what `main` pushed, word by
  word; a buffer verified byte by byte is used as one range of host memory;
  `getchar` and the guest's own `read` take from the same terminal.
* *Clean-up.* Which label a failed call jumps to, what exists by then, and what
  the exit status and the log say of it; callbacks of a plugin that was closed.

What makes each component correct:

* memory map: the list is ordered and disjoint, translates like the hardware,
  is backed by live memory, and the search returns the lowest free range;
* page tables: exactly the pages asked for are translated, at every
  intermediate step; the host's walk agrees with the processor's; no table is
  within the guest's reach;
* run loop, emulation and system calls: the guest cannot tell that it is
  interrupted, emulated and re-entered: every instruction takes effect once and
  in order, each call it executes is answered once, and the loop ends when the
  guest does;
* loader, main, plugins, logging: what was reported as set up is set up; what was
  set up is torn down; exit status and log tell failure from success; no callback
  into a closed library;
* main and boot kernel: the application's `main` starts at its entry point in
  long mode with the arguments of the command line, and its return ends the run;
* buffers: the host's range is the guest's buffer, byte for byte;
* Mach-O parser: the first `LC_MAIN` of any object is found, and every file comes
  to an end;
* prompt: no call goes through that the user has not let through, and no stall
  without the user.

## 2. Modules

| module | models | state and actions |
|---|---|---|
| `GuestPhys` | abstract: what the memory map promises | a partial map `phys` from guest-physical to host pages; a call maps one free range to an unused block, or fails and changes nothing |
| `MemRegions` | `vm_mem.c` 28-70, 121-154, 249-307, 340-358; `loader.c` 97-121 | `mem_regions` (the list), `ept` (framework), `heap` (host blocks), `ret`. One action per outcome of `vm_mem_alloc` and of `load_mach_obj`'s mapping; each contains the whole of `map_gpa` |
| `GuestPaging` | `vm_mem.c` 72-86, 156-246, 316-338, 365-469; `vcpu.c` 94-107; `loader.c` 96-130 | `phys`, `mem` (contents as table entries), `pml4`, `call` (position inside `map_gva`), `phase` (position of main); one step per table level, because the intermediate states are what the properties are about |
| `Native` | abstract: the machine a guest program expects | instructions take effect one after the other until the machine stops |
| `Vmcs` | `vcpu.c` 36-52; `emu.c` 98-158: EFER, CR0 and the entry control | `vmcs`: CR0 and its shadow, EFER, the entry control and LMA; operators for the writes of each handler, and what VM entry checks (external) |
| `Vcpu` | `vcpu.c` 149-159, 256-385; `emu.c` 56-188; `emu_syscall.c` | extends `Vmcs`; `mode` (who runs), `rip`, `regs`, `vmcs`, `exit`, the ghosts `made` (system calls the guest has executed) and `calls` (those the loop has answered, and who was asked); one action per case of `vcpu_run` with the whole handler it calls, plus the processor's own steps (external) |
| `Launch` | `hvexec.c` 34-283; `loader.c` 16-134; `plugin.c`; `logging.c`; `vcpu.c` 94-162 and `push64` | `pc` (position of `main`), the parsed options, `hv` (VM and VCPU), `mem` (guest memory in cells), `rsp`, `plugin`, `torn` (a page table could not be allocated and `map_gva` went on), the log; one action per call that `main` makes, each with its failure and the label it jumps to |
| `Boot` | `boot.asm`; `vcpu.c`'s loop around it | extends `Launch` and `Vmcs`; `at` (position in `boot.asm`), `saved` (the words popped), `cpu`; one action per group of instructions up to one that exits; time slices, NMIs and machine checks |
| `Buffers` | `emu_syscall.c` 63-91; `vm_mem.c` 121-149, 316-358, 451-469 | extends `GuestPaging`; `host` (the block behind each page), `cr3`, the ghost `strayed` (the guest has left the host's tables once); the host's set-up, and a guest that stores and loads any page as CR3 |
| `MachO` | `macho_parser.c` | `file`, `walk` and `archs` (positions of the two loops), `ret`, `entry`, the ghost `seen` (for each header read, the commands come by); one action per function, one step per turn of a loop. `Written` says what a file of Mach-O objects is (external) |
| `Prompt` | `emu_syscall.c` 74-95, 112-119, 197; the terminal (external) | `event` and `stage`, `tty`, `buffer` (that of `stdin`), `eof`, the ghost `typed`; the user, who types at any time, `getchar`, the answer |
| `MC*` | instances for TLC | values of the constants |
| `MemRegionsProofs`, `GuestPagingProofs`, `BuffersProofs`, `VcpuProofs`, `BootProofs`, `MachOProofs`, `PromptProofs` | theorems about the module they are named after; `BootProofs` starts with the steps of `main` alone and states what holds of `main` with its guest | |
| `LayoutProofs` | theorems about guest memory in `Launch` and `Boot`; extends `BootProofs` | |

`PROJECT.json` maps every definition to its lines.

How the modules are connected: `MemRegions` implements `GuestPhys`
(`ImplementsGuestPhys`, checked and proved). `GuestPaging` uses
guest-physical memory through what `MemRegions` establishes: its `phys` is the
domain of the translation and its `vm_mem_alloc` takes the lowest free range or
fails (`FirstFit`, `AllocFits`). `Vcpu` uses memory through one bit, whether
`vm_mem_verify` accepts a buffer, and implements `Native` (`ImplementsNative`).
`Boot` composes `Launch` with `Vmcs`: the guest's instructions run on the memory
and stack that `main` left and go through the same handler operators as in
`Vcpu`, and the loop's end hands back to `main`'s clean-up. `Buffers` composes
`GuestPaging`, whose host steps it extends by the blocks `map_gpa` allocates, with
the running guest. That `boot.asm` writes EFER before CR0 is what justifies
`LongModeOrder` in `vcpu`.

### Abstractions

* `MemRegions` and `GuestPaging` count in pages. The code masks every address it
  stores to a page and every length is a multiple of `CONF_PAGE_SIZE`. A
  `uint64_t` byte address becomes a page number below `AddrPages`, and additions
  and subtractions wrap there (`Add`, `Sub`).
* A walk over the linked list is a predicate "the walk stops at element i", not
  a recursion; this is what makes it provable.
* A call that fails for an external reason (`valloc`, `mmap`, `malloc`,
  `hv_vm_map`) may do so at any time.
* `MemRegions` lets `load_mach_obj` map at any address and any number of times,
  and interleaves it freely with allocations. `main` calls it once at 4 GB; the
  larger set of behaviours contains that one.
* `GuestPaging`: an entry is a page number and its two low bits. `Fresh` is what
  a new page can contain. `Residue` is what an uninitialized stack word can
  hold: the outcome of reading one is a nondeterministic choice from it.
* `Vcpu`: a program is a sequence of `Instructions`; `rip` is a position in it, or
  lies inside an instruction (`off`). Values are kept as far as a handler looks
  at them. A page-in by macOS is the step that makes a `touch` resident. Which
  instructions exit follows from the controls `vcpu_setup_ia32` writes: a `mov`
  to CR0 only when it changes a masked bit against the shadow, a `mov` to CR4
  only when it sets VMXE. `syscall` needs EFER.SCE, and instructions with a REX
  prefix occur only after the boot sequence, so programs that use them start with
  `Boot`.
* `Launch`, `Boot`: memory is counted in cells of four bytes, which is what
  `boot.asm` pops. A cell says what was last put there: half of a number, or a
  piece of the descriptor table, the kernel, an argument or a page table.
  Strings take whole cells. The files are their sizes and whether `LC_MAIN` is
  there; every call to the system may fail. `main` reads options from a given
  sequence, in which no file name is empty; the text of the usage message is left
  out.
* `Launch`: when one of the three allocations that `map_gva` does not check fails,
  the call succeeds with `torn` set, and the tables count as not intact from then
  on. Their cells are there all the same; what `map_gva` writes through the address
  it never got is in `GuestPaging`, not here.
* `Boot`: a kernel that has been overwritten runs as something else. Such a guest
  is "lost"; it may stop the loop or not, and nothing more is said of it. An NMI or
  machine check ends the loop ("nmi"), or moves `rip` on by two bytes (vector not
  0); the guest is then "astray", and nothing more is said of it either. The
  application is one step that returns with the stack it found.
* `GuestPaging` leaves out `load_raw`, which `main` calls between the set-up of the
  tables and the application: a kernel that fits writes to low pages only, and one
  that runs into the tables is the case of `LayoutLimits`.
* `Vmcs`: of VM entry's checks, those on what the handlers write: NE in CR0, PE with
  PG, and the agreement of PG, LME, LMA and the entry control.
* `MachO`: a word has two digits which the swap functions exchange. A structure
  has the fields the code reads, and sizes are in words. Reading behind the end
  of the file gives zero (`calloc`), except for the magic, which stays
  uninitialized. Offsets do not overflow an `int`. A file carries what it was
  written as, its objects with the offsets of their commands; `Written`, part of
  `MachOAssumption`, ties that to its words, and `HeaderSize`, `Cmd` and `CmdSize`,
  which model the code, do not appear in it.
* `Buffers`: the guest's store writes the one kind of word that matters, one that
  a page walk would take for an entry.
* `Prompt`: standard input is a terminal, which hands over a line at a time. The
  user types whole lines whenever he likes. A `read` of descriptor 0 takes as much
  of a line as it asks for and leaves the rest; other calls do not touch standard
  input.

## 3. Runs

| run | instance | shows |
|---|---|---|
| `regions` | 5 mappable pages of 7, requests of 0-3 pages, 3 blocks | the list stays ordered (`RegionsOrdered`), agrees with the framework's table after every failure and undo (`EptAgrees`), is backed (`HostBacked`); `FirstFit`, `AllocFits`; `ImplementsGuestPhys` |
| `paging` | tables of 3 entries, 4 low pages, executables of 1-3 pages, arbitrary data in the pages that are mapped; one allocation in `map_gva` may fail unnoticed or one table may have stale words | as long as none does: `TranslationMatches` at every step of `map_gva`, `HostWalkMatches`, `TablesPrivate`; in any case `SetUpEnds` |
| `paging_unchecked` | one failed allocation | **violated** `SuccessIsMapped` |
| `paging_verify` | no failure | **violated** `VerifiedIsMapped` |
| `vcpu` | all programs of up to 3 supported instructions, from reset and after the boot sequence, and all of 5 that mix calls, loads of `rax` and page-ins; all programs of up to 2 of all instructions, with NMIs of both kinds; with and without plugin; interactive or not | `ImplementsNative`, `OneAnswer`, `EntriesValid`, `Terminates` for the guests each is about; `StopIsClean` for all, with derailed instruction pointers |
| `vcpu_fault` | one program | **violated** `TripleFaultStops` |
| `vcpu_mov_cr8` | one program | **violated** `EmulatedAdvances` |
| `boot` | all lists of up to 3 arguments of 1-2 cells with five kernel sizes, with and without `LC_MAIN`; seven option lists; every call may fail; a boot kernel of two cells | of `main`: `NothingLeft`, `StatusTells`, `FailureVisible`, `NoDanglingCallback`; `LayoutLimits`: memory is as `boot.asm` expects it exactly when table, strings and kernel fit and no page table is missing. Of the guest, through time slices, NMIs and machine checks: `StartState`, `NeverLost`, `BootReachesApp`, `ReturnEnds` |
| `buffers` | tables of 2 entries, an executable of up to 3 pages of 2 bytes, buffers of up to 5 bytes, 2 steps of the guest | `BufferIsGuests` |
| `macho` | objects of up to 3 commands in both widths and byte orders, fat files of two, 4 arbitrary words behind a magic | `FindsEntry`, `ListsAll`, `WalkEnds` |
| `prompt` | up to 4 calls, each a read of 1 or 4 characters or none; four kinds of lines, typed at any time; end of input | `CallsPaidFor`, `Settles` |
| `prompt_pause` | up to 2 calls of the same | **violated** `PausesForInput` |

### Why the bounds are enough

* `regions`: with five pages and three blocks a region can be refused for
  overlap on either side, a gap of exactly, one less and one more than the
  request can exist in front of, between and behind regions, the space fills up,
  and a range can both run past the framework's limit and wrap around the top
  (7 pages). The same facts are proved for all values.
* `paging`: four low pages need two page tables of three entries, which share the
  directory above them; the executable starts in another directory and crosses a
  page-table border, and its tables first fill the gap below it and then go
  above it. Each of the four levels is entered with an empty and with a filled
  entry. One fault at any of the allocations is followed by a walk from a word
  that is zero, the low page or nowhere.
* `vcpu`: the properties are about pairs and triples of
  instructions (a call followed by something that leaves `rcx` alone; EFER
  before CR0), each with any number of interruptions in between.
* `boot`: the areas are a few cells long, with the argument table made for two
  entries and the strings' area for three cells, so that lists of
  arguments stay one below, meet and pass each limit; kernels of 0, 1, 2, 3 and 6
  cells do the same with the two cells between kernel and page tables, and the
  largest reaches past all of memory. The stack has room for exactly what is
  pushed, and the task segment ends exactly where the argument table starts, as
  0x7000 + 104 and 0x7100 do not: a word more on either would be seen.
* `buffers`: with pages of two bytes a buffer of five touches three pages, at
  both alignments; low pages and executable lie in different blocks, and tables
  between them in blocks of one page. The guest's two steps are a store and a
  load of CR3, in both orders.
* `macho`: a command of the smallest and of a larger size can stand in front of
  `LC_MAIN`, and other commands contain its number, so that a walk which is off
  by one finds it in the wrong place; the objects of a fat file can have byte
  orders different from each other and from the header's.
* `prompt`: what goes wrong takes two prompts and a `read` between them. A user may
  type a line while up to two characters wait in the terminal (`Ahead`), so that two
  lines can be typed ahead, and a part of one can be left by a `read`.

### What the violations show

Each is a place where the program departs from what its own text says; the
quotations are in `findings`.

* `paging_unchecked`: an allocation that fails in `map_gva`'s loop is not
  noticed, so `vm_mem_init` and `load_mach_obj` return 0 for pages that are not
  mapped.
* `paging_verify`: `gva_to_gpa` follows entries that are not PRESENT. A zero
  entry leads to guest-physical page 0, whose descriptor table is then read as a
  paging structure, and page 0 itself is mapped: `vm_mem_verify` accepts
  addresses that the guest cannot reach.
* `vcpu_fault`: a triple fault some time after a system call is taken for that
  system call when `rcx` has not changed since.
* `vcpu_mov_cr8`: `emu_mov_cr` resumes without moving `rip`.
* `prompt_pause`: `getchar` takes one character of a line; the newline behind it
  answers the next prompt, which therefore does not pause. Lines typed ahead, which
  do the same, are not even needed.

### Limits that the passing properties state

Where the program does less than its text promises, the property says exactly
how far the promise goes:

* `LayoutLimits`: `main` compares no sizes. Too many arguments run into the
  strings, long ones into the kernel, a long kernel into the page tables, and the
  guest is started all the same (`boot.asm` 40-41 describes the layout).
* `StatusTells`: from `load_raw` on, a failed call goes to the clean-up with
  `ret_val` still 0. `FailureVisible` says where such a failure can be seen.
* `NeverLost`, `StartState`: `load_mach_obj` succeeds without having assigned the
  entry point when there is no `LC_MAIN`, and the results of the pushes are
  ignored; such a guest never reaches the application.
* `BufferIsGuests`: the host translates with the root it built, not with the
  guest's CR3; for a guest that manages tables of its own (`doc/report.tex` 157)
  nothing holds, not even after it has loaded the host's root again: with tables of
  its own it can have mapped the host's tables and changed them. The property is
  therefore about guests that never left them (`strayed`).
* `CallsPaidFor`: what remains of "pause for input on each event" (see
  `prompt_pause`): a character answers one prompt at the most, so the user can never
  have let more calls through than characters were typed. At the end of the input
  every call goes through.
* `BootReachesApp`, `ReturnEnds`: an NMI or machine check ends the run, or sends the
  guest astray, at any point, also instead of the final `hlt`.
* `OneAnswer`: for guests that are not derailed (`Orderly`). After a fault the stale
  `rcx` makes a call be answered again; that is `vcpu_fault`.
* `Terminates` and `ImplementsNative`: for supported instructions. An EPT violation
  on memory no region backs is retried for ever (`vcpu.c` 328), and a `mov` to CR0
  from r8-r15 has four bytes where `emu_mov_cr` adds three (`emu.c` 159);
  `vcpu` contains such programs for `TypeOK` and `StopIsClean`.

### Fairness

* `GuestPaging`: `WF_vars(Host)`. `main` is straight-line code of one thread, so
  it takes its next step.
* `Vcpu`: `WF_vars(Host)` for the loop, and `SF_vars(Guest)`: a guest that is
  entered again and again completes, at some time, an instruction before the
  slice ends. Strong fairness is needed because an interrupt disables the
  guest's step; it is what the host's scheduler provides, since a slice is far
  longer than an instruction. Nothing is assumed of interrupts, NMIs, the
  plugin or the user.
* `Boot` (and `Launch` with it): `WF` of `main` and the loop, `SF` of the guest's
  instructions for the same reason as in `Vcpu`; nothing of the application, which
  may run for ever.
* `MachO`: `WF` of the parser. `Prompt`: `WF` of `hvexec`'s own steps and nothing of
  the user, so `Settles` says that whenever `hvexec` waits it is the user's turn.
* `MemRegions` and `Buffers` have only safety properties and no fairness.

### Other assumptions

* The first three properties of `paging`, and `BufferIsGuests`, are about tables whose
  pages were zeroed. `valloc` does not promise that; on macOS a page fresh from the
  kernel is zeroed, one reused by the allocator is not. With other contents
  `map_gva` takes what it finds for tables: it still ends, but the translation is
  not the one asked for.
* `Boot`'s properties are about a VM that `main` prepared (`Prepared`): everything
  fits, the kernel and the page tables are whole, the application has `LC_MAIN`, and
  the three pushes, whose results `main` ignores, worked.
* `ImplementsNative`, `OneAnswer`, `EntriesValid` and `Terminates` are about guests
  that are `Orderly`: their instructions are ones the host handles as a processor
  would (`Transparent`), and NMIs come outside event delivery only (`Vectors` of the
  program is within `{0}`): for the others the loop adds two bytes to `rip` wherever
  it points. Part of `Transparent` is that a program which has switched system calls
  on (EFER.SCE) does not switch them off again: `vcpu_run` would go on answering
  them. `EntriesValid` is about programs that write EFER before CR0, as `boot.asm`
  does, and keep NE, and PE with paging (`LongModeOrder`); `Terminates` about programs
  without an instruction that exits for ever (`Completes`). The conditions are part of
  the properties, so the proofs assume nothing further.
* At most `MaxFaults` allocations fail, or tables are not zeroed, in one set-up.

## 4. Proofs

Each theorem below is checked by `tlapm` to the last leaf. The named assumptions of
the modules are all they use, unless the table says otherwise; TLC evaluates
those assumptions in the runs.

### Memory map (`MemRegionsProofs`)

For every `AddrPages`, `GpaPages`, `MaxPages` and set of blocks that satisfy
`ConstAssumption` (the framework's space is smaller than the range of an address; a
request's page count fits the range; the null pointer is no host page):

| theorem | states |
|---|---|
| `TypeCorrect` | `Spec => []TypeOK` |
| `ListOrdered` | `Spec => []RegionsOrdered` |
| `HostSeesGuestMemory` | `Spec => []EptAgrees` |
| `RegionsBacked` | `Spec => []HostBacked` |
| `LowestFreeRange` | `Spec => []FirstFit` |
| `WalksAgree` | `Spec => []AllocFits` |
| `Refinement` | `Spec => ImplementsGuestPhys` |

The inductive invariant is `IInv`, the conjunction of the first four. None of
`EptAgrees` and `HostBacked` is inductive alone: the walk of `gpa_to_hva` is a
translation only on an ordered list (`WalkTranslates`), and an undo that
unmaps a range restores the table only if the range was free in it before
(`NoNodeUndoes`), which needs the table to agree with the list. `HostBacked`
is what makes the block of a new region unused, hence the refinement's `Map`
step possible.

The argument for a successful call: where `map_gpa`'s walk stops and its test
passes, every earlier region ends at or below the new range and every later one
starts at or above its end (`FreeRange`); the framework's acceptance rules out
the wrap-around that the test lets through; inserting there
(`InsertAtFacts`) keeps the order; the table with the new range translates the
new list (`Translates`). `FirstFit` follows from the order: the start in front of
element i is the largest end before it (`StartFacts`), and a free range below
would fit in a gap the walk has passed over (`LeastElement`, `GapFacts`).

### Page tables (`GuestPagingProofs`, `BuffersProofs`)

For every number of entries of a table, every number of low pages and of pages of
the executable, every content of fresh data pages and every residue:

| theorem | states |
|---|---|
| `PagingTypes` | `Spec => []TypeOK` |
| `PagingTranslates` | `Spec => []TranslationMatches`: at each intermediate step of `map_gva` the processor's walk finds exactly the pages mapped so far |
| `HostWalkAgrees` | `Spec => []HostWalkMatches` |
| `TablesAreNotMapped` | `Spec => []TablesPrivate` |
| `SetUpShrinks` | `Spec => [][Smaller]_vars`: each step of the set-up decreases phases left, pages of the call and levels of the page, in lexicographic order |
| `BufferCorrect` (`BuffersProofs`) | `BufSpec => []BufferIsGuests` |

`TranslationMatches` says nothing of the tables, so it is far from inductive. The
invariant `PInv` says there is a map `tree` from address prefixes to pages such
that the tables in memory are exactly that tree (`Built`): every node is a page that
was allocated for it and for nothing else, its entries lead to its children and all
the others are zero, and the leaves are the pages of `mapped`. It holds as long as
no fault has occurred, which is the properties' own condition. A step of `map_gva`
that allocates extends the tree by one node on a fresh page; one that finds a filled
entry moves down an existing edge; the last level writes one leaf. That two prefixes
have different nodes is what keeps the write of one entry from showing under
another address, and that all nodes lie outside the pages given to `map_gva` gives
`TablesPrivate`. `SetUpShrinks` needs only the types: it is the part of `SetUpEnds` that
is a safety property, for tables and executables of every size and with any
allocation failing.

For `Buffers`, `BInv` adds that what the host has mapped is mapped to itself
(page n at guest-physical page n) and that the pages of one range lie in one block
in order (`IdentityInv`); a buffer that is verified byte by byte then is one range of
host memory. The guest's stores reach only pages that are no tables while it is on
the host's tables. The attempt to prove the property from `cr3 = pml4` alone failed
for a good reason (see `BufferIsGuests` above).

### Run loop (`VcpuProofs`)

For every set of programs over `Instructions`, of any length, and every choice of
vectors, plugin, mode and resident pages (`VcpuAssumption`):

| theorem | states |
|---|---|
| `LoopTypes` | `Spec => []TypeOK` |
| `StopsClean` | `Spec => StopIsClean` |
| `CallsAnsweredOnce` | `Spec => []OneAnswer` |
| `RunsAsNative` | `Spec => ImplementsNative` |
| `EntriesAreValid` | `Spec => []EntriesValid` |

`VInv` has three parts: the shape of the state, the range of `rip`, and `ExitInv`:
the exit the host is handling is the one the instruction at `rip` causes. The
refinement needs `OrderInv` besides: with transparent programs `rip` is one more than
the number of instructions that took effect, and `rcx` is not zero only after an
instruction in front of `rip` has switched system calls on. So a triple fault comes
from a `syscall` only and finds `rcx` zero or just behind it, and every handler's `rip` advance is one
instruction of `Native`. `EntryInv` keeps, for VM entry, that EFER.LME, PG, LMA and the entry control
agree, and that paging was turned on by an instruction in front of `rip`, so that by
`LongModeOrder` no further write of EFER is to come.

`OneAnswer` compares two histories: `made`, which grows when the processor executes a
`syscall`, and `calls`, which grows when the default case answers. `CallInv` makes it
inductive: the two agree, but for one last call while the exit of a `syscall` is being
handled (`Pending`), whose position and number are then still in `rcx` and `rax`; and a
triple fault without a pending call finds `rcx` zero. The last part is where `OrderInv`
is needed, and what fails for a guest that faults (`vcpu_fault`).

### main and its guest (`BootProofs`)

For every set of command lines, every layout that satisfies `LaunchAssumption` and
`BootAssumption` (the areas lie behind each other in the order of `conf.h`, the
stack has room for three pushes, the kernel and the task segment fit), and every combination of
failed calls:

| theorem | states |
|---|---|
| `MainTypes` | `BootSpec => []TypeOK` |
| `MainLeavesNothing` | `BootSpec => []NothingLeft` |
| `MainStatus` | `BootSpec => []StatusTells` |
| `MainFailureVisible` | `BootSpec => []FailureVisible` |
| `MainNoDanglingCallback` | `BootSpec => []NoDanglingCallback` |

The properties speak of the end of `main`; the invariant `MainInv` says what leads
there, position by position: which log is in use (`LogInv`), that the status follows
the failures reported so far (`StatusInv`), what exists in the framework (`HvInv`: a
VCPU that is past the label which destroys it is gone, or the status is 1), where
callbacks of a closed library can remain (`PluginInv`), and how deep the stack is
(`StackInv`, for the type of `rsp`). `GuestInv` carries the last through the pops and
pushes of `boot.asm`. The proof of `FailureVisible` showed that it needs file names
that are not empty: an `-o` with an empty name would look like a log that is not set
up.

### Guest memory (`LayoutProofs`)

For the same command lines, layouts and failures, with arguments of any number and
length and kernels of any size:

| theorem | states |
|---|---|
| `MainLayoutLimits` | `BootSpec => []LayoutLimits`: everything is in place exactly when it fits and no page table is missing |
| `BootStartState` | `BootSpec => []StartState` |
| `BootNeverLost` | `BootSpec => [](EntryGva \notin Residue => NeverLost)` |

The condition of the last is about the case without `LC_MAIN`: an uninitialized word
that happens to be the application's entry point would start the application. That a
prepared guest is never lost, the first half of `NeverLost`, does not use it.

The inductive invariant `Inv` is `MainInv` and `GuestInv` with two more parts.
`MemoryInv` says what memory holds at each position of `main` and of `boot.asm`. The
addresses of the strings are the cardinalities of growing finite sets
(`StringPlaces`), which replaces an induction over the argument list. Two things made
it inductive:

* *Less than `Fits`.* The kernel and the tables survive whenever nothing reaches them,
  also if the argument table runs into the strings (`Clear`, weaker than `Fits`); the
  guest's code then still runs, and this is what a guest that runs with paging on can
  be known to have (`Whole`).
* *Damage is for good.* Where a part does not fit, the first cell it reaches behind
  its limit shows it ever after (`OverrunInv`): nothing that is written later puts
  the kernel or the table back. For the argument table and the strings no such cell is
  needed: both would have to hold the cell where the strings begin (`IntactFits`).

`StartInv` follows the stack: the pushes that worked (`PushInv`), the six words taken
off (`PopInv`, `SavedInv`), the control state (`ControlInv`) and the application
(`AppInv`, which also keeps that a guest sent astray can still be entered). Its core is that the seventh word is the root's address when all three
pushes have worked and, in a clear layout, something else when one has not
(`RootWord`): so a guest whose stack is not as it should be does not survive the switch
to paging, and never starts an application. The seventh word is looked for up to five
cells above the stack's top, so the proof needs at least one cell of page tables behind
the low pages (`LowTables > 0`); `vm_mem_init` always allocates the four levels.

### Prompt (`PromptProofs`)

`OneCharacterPerCall`: `Spec => []CallsPaidFor`, for every number of calls, every set of
lines and any typing ahead. Its invariant `PaidInv` counts the characters that are still
to be read as well: calls let through, characters in the buffer and characters in the
terminal together are no more than were typed, so that what is left over can pay for one
prompt each.

### Mach-O parser (`MachOProofs`)

For every base of the digits, every set of files that are what they were written as
(`Written`), with any number of objects and of commands of any sizes, and any
other files besides:

| theorem | states |
|---|---|
| `ParserFindsEntry` | `Spec => []FindsEntry` |
| `ParserListsAll` | `Spec => []ListsAll` |
| `ParserShrinks` | `Spec => [][Smaller]_vars`: each step decreases the architectures left or, for one object, the commands left |

The assumption on the magics is that the three and their swapped forms are six
different words, which the numbers of `mach-o/loader.h` and `mach-o/fat.h` are.

A walk is followed step by step instead of by an induction over the file: `Walks(o)`
says that the position of the loop is the offset of the command whose index is the
number of commands behind it (`Behind`), in the byte order of the object. A header
that is read establishes it (`HeaderStarts`), a turn of the loop keeps it
(`NextWalks`), and at such a position the code sees that command's number, size and
contents (`AtCommand`). These rest on the swap functions undoing themselves
(`SwapWord`, from the uniqueness of quotient and remainder), and on a magic telling
width and byte order (`ObjectMagic`, `FatMagic`). `ReadInv` adds that no `LC_MAIN`
is behind the walk; `DumpInv` that the objects in front of the current one are listed completely
and the current one up to the walk, and that the next `fat_arch` is that of the next
object. `ParserShrinks` holds on every file, `raw` ones included: the loops count
`ncmds` and `nfat_arch` down whatever sizes and offsets the file has, so a `cmdsize`
of zero cannot keep them turning.

### Only model-checked

* Liveness under fairness (`SetUpEnds`, `Terminates`, `BootReachesApp`, `ReturnEnds`,
  `WalkEnds`, `Settles`): the prover has no support for it. Of `SetUpEnds` and
  `WalkEnds` the decreasing measure is proved; that there is always a next step, and
  that it is taken, is not.

## 5. Not modelled

* `unmap_gpa`, `unmap_gva`, `vm_mem_destroy`: empty in the code.
* `vcpu_dump`, `vm_mem_dump` and the text of log lines: output only. (`dump_segments`
  is modelled, as part of the parser's interface; nothing in the repository calls it.)
* The contents of files and buffers, and file descriptors: the system calls hand
  them to the host unchanged. The path of `open` is not verified by the code and
  not modelled; a hazard notes it.
* Standard input that is a pipe or a file instead of a terminal.
* `push32`: nothing calls it; `vcpu_setup_ia32` stores the root's address itself.
* `vmx_get_guest_reg`: which register an operand number names.
* The contents of descriptors and of the task segment beyond their place.
* Turning paging off again once long mode is active (`emu.c` 140): neither
  `boot.asm` nor an application does so; a hazard notes it.
* The example guests and the plugin under `test/`: they use the
  system and are no part of it.

## 6. Plan

All components are modelled, and every safety property a run checks is proved. What
could be added:

1. `Launch` with `MemRegions` and `GuestPaging`: the tables behind the low pages, of which
   `Launch` only knows whether one is missing (`torn`), from what `GuestPagingProofs`
   shows of `map_gva`.
2. Liveness stays with TLC.
