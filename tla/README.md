# Verification of the Morello compartment framework

TLA+ specifications of the framework in this repository, model-checked with TLC
and with theorems proved in TLAPS. The specifications are translated from the
code; documents and comments are quoted only where the code disagrees with them.

## 1. The system

One process, one thread. The *capability manager* (an executable, executive
processor state) loads a shared library, takes the `EXECUTIVE` permission from
everything the dynamic linker resolved for it, and calls functions of the library
in a *compartment* (restricted processor state, a stack of its own). Compartment
code may call back *services* of the manager. Nothing runs concurrently, nothing
is persisted; what is hard is stack and register discipline across processor
states in hand-written assembler, and a multi-step rewrite of memory and page
protection with many ways to fail half way.

| component | code | state | operations | calls |
|---|---|---|---|---|
| switcher | `capmgr/compartment_caller_asm.S`, `common/comp_caller.c` | frames on the executive stack; CSP, RCSP, RDDC, RCTPIDR, FP, LR | `CompartmentSwitchEntry`, `CompartmentSwitchReturn`, `CompartmentServiceCallbackSwitchReturn`, `CompartmentCaller` (a copy on each side) | the target it is given |
| compartment object, proxy | `capmgr/CCompartment.*`, `CCompartmentApiProxy.h`, `common/CCompartmentData.h` | stack, thread pointer, sealer and entry capabilities; an argument object per call | constructor, `CallCompartmentFunction`, one proxy method per API function | switcher, library symbols |
| compartment runtime | `compartment/comp_entry.cpp`, `service_call_proxy.h`, trampoline | `g_service_call_proxy` | `CompartmentUnwrap`, `CallFunction`, `CompartmentReturn`, `CompartmentServiceCallback` | API functions, switcher |
| services | `capmgr/capmgr_services.cpp`, `example_usage/example_capmgr_service_api_impl.cpp` | table of services, the heap | `CompartmentServiceHandler`, `cheri_malloc`, `cheri_free` | switcher |
| library loading and patching | `capmgr/cap_relocs/*`, `utils/CCapability.h`, `utils/Range.h` | `m_so_map`, program headers, dynamic section, relocation tables; in memory: GOT slots, page protection | `ParseLinkMap`, `Load`, `DoAllLibCapFixups`, `DoLibCapFixups`, `ProtectAllBlocks`, `PatchCaps`, destructor | dynamic linker, `mprotect` |
| main program | `main.cpp` | options, level of the log, return value | read options, load and patch, calls, revert and close | all of the above |
| example API | `example_usage/example_comp_api_impl.cpp`, `compartment/compartment_basic_logger.c` | log level, heap buffers | five functions | two services |
| loggers, exceptions, glibc declarations, build files, PDF | | | | not modelled |

What makes each correct:

- **Switcher.** Whatever calls and callbacks happen, every register a switch
  replaces comes back from the slot it was saved in; code of the compartment runs
  restricted and on its own stack; a reply goes to the caller of that very call.
- **Runtime.** The global proxy refers to the live call's argument object, or to nothing.
- **Loading and patching.** The compartment runs only when no symbol of its
  libraries is executive; nothing outside those libraries is touched; no page is
  ever writable and executable; reverting undoes patching, as far as it can be undone.
- **Set-up.** What a compartment is given to run with grants no more than code of its
  library, its own stack, and the sealing identifiers that the constructor asks for; whatever the constructor could not get, no
  function runs without it.
- **Services, example API.** A buffer that one call allocates and another frees is
  neither lost nor used after its end; the string in it survives being cut for
  printing; no conversion between `int`, `int16_t` and `size_t` leads out of it.
- **Main program.** The compartment runs between the two passes only; a good return
  value means that every call came back and everything was put back.

The behaviours that are hard are listed with their lines as `hazards` in
`PROJECT.json`: nested frames that depend on each other's layout, state chosen by
the return address that a frame holds, a global that outlives an object, partial
failure between the steps of a pass, and re-deriving capabilities at the edges of
their bounds.

## 2. Modules

| module | what |
|---|---|
| `CallProtocol` | abstract: calls of two sides nest and each return answers the last open call |
| `CompartmentSwitch` | switcher, `CompartmentCaller` on both sides, runtime, handler, main's calls |
| `CompartmentSwitchProofs` | its theorems on safety |
| `CompartmentSwitchRefinement` | the theorem that it implements `CallProtocol` |
| `MCCompartmentSwitch` | the example's API, and an API as a user may write it |
| `Capability` | capabilities, the intrinsics, the methods of class `Capability` |
| `CapabilityProofs` | lemmas about `DeriveFromCap` |
| `RelocationPatch` | main's life around the libraries: load, patch, run, revert, close |
| `RelocationPatchProofs` | its theorems |
| `MCRelocationPatch` | small link maps, sound and defective |
| `Confinement` | abstract: the symbols that grant the executive state before, while and after the compartment runs |
| `CompartmentSetup` | constructor of `CCompartment`, sealing and unsealing, what a call needs of them |
| `CompartmentSetupProofs` | its theorems |
| `MCCompartmentSetup` | four compartments, three libraries |
| `ExampleRun` | main's five calls as data: arguments, results, heap, what is printed |
| `ExampleRunProofs` | its theorems |
| `MCExampleRun` | a scaled machine with all numbers, and a few strings |
| `CapMgr` | composition: options, `RelocationPatch`, `CompartmentSetup`, `ExampleRun` |
| `CapMgrParts` | the theorems that it implements its parts, and that theirs hold in it |
| `CapMgrProofs` | the theorems about the whole |
| `MCCapMgr` | command lines, processes and libraries for it |

`PROJECT.json` maps each definition to the lines it stands for. A definition
commented "Mutant" is a variant with a plausible bug, used to test that a property
notices it; it takes part in no specification.

### CompartmentSwitch

A word of memory is one 16-byte capability. `mem` holds both stacks, the executive
one below the compartment's. A capability to a stack slot is its address, null is
0, capabilities to code are negative labels. `pc` is the function that runs next,
`mode` is PSTATE. One action is one function or one stretch of it between two
transfers of control:

- `CallCompartmentFunction` / `CallUnknownFunction` / `MainExit`: main and the proxy.
- `CompartmentCaller`, `CallerReturn`: the compiled prologue, `blr`, and epilogue
  that the clobber list of `comp_caller.c` asks for, on the stack of the state it
  runs in. The return also takes the result and drops the argument object.
- `CompartmentSwitchEntry`, `CompartmentSwitchReturn`,
  `CompartmentServiceCallbackSwitchReturn`: the assembler, instruction effects in
  order. The frame is five slots, the frame record starts at slot 4 and takes two:
  the model writes the slot above the frame as the code does.
- `CompartmentUnwrap`, `CallFunction`, `CompartmentServiceCallback`,
  `UnknownService`, `CompartmentReturn`: the compartment. What an API function does
  is abstracted to the services it calls in turn (`Script`).
- `CompartmentServiceHandler`: the handler's prologue and the dispatch.

`x19` stands for the ten callee-saved registers. Frame sizes and the places
of saved registers in compiled functions are constants. `FrameAssumption` says of
them what GCC does, the only compiler that the build supports (`CMakeLists.txt:34-40`):
the frame record is two adjacent slots, the callee-saved registers lie above it, and
nothing keeps the record from being at the bottom of the frame, where GCC as a rule
puts it. There the switch overwrites the saved frame pointer (section 5). The runs
have it there (`CallerFp = 0`) and the proofs are for all places; that this is the
layout of a given build has to be looked up in its object code, which is not part of
the repository.

### Capability and RelocationPatch

`Capability` keeps tag, bounds, address, permissions and sentry. The intrinsics
clear the tag where the hardware does: outside the old bounds, on a sealed value,
or when the bounds cannot go with the address (`Representable`, a constant of
which only what the architecture guarantees is assumed). The lengths set here are
those of existing capabilities, so setting bounds is exact.

`RelocationPatch` sees memory as the slots that relocations refer to and the
protection of the pages they lie in. `Images` is what the linker may leave behind:
a link map, the values in memory, the protection. `pc` walks through
`ParseLinkMap`, then the loop of `DoAllLibCapFixups` and inside it `unprotect`
(`ProtectAllBlocks`), `PatchCaps` table by table and entry by entry, `restore`;
`failed` is the `return false` that travels to main; then `running`, the same loop
with `makeRestricted` FALSE, `delete`, `exit`. Any exception that reaches main is
`terminated`; `DumpThrows` is the one of dumping the tables, which checks them as
patching would, before any of it. Every `mprotect` may fail. While `running` the compartment may store
any non-executive value that it can have to a slot in a writable page.

Static and dynamic builds differ in `image.static`. A failed `mprotect` is taken
to change none of the pages of its block.

`Confinement` leaves tables, pages and capabilities out: what remains is a phase and
the set of symbols that are executive.

### CompartmentSetup

The memory of `Capability`, with bounds that may be rounded (`Round`, of which only
is assumed that it covers what was asked for, and stays in a mapping that the
kernel made for it) and capabilities that authorise sealing. No intrinsic fails: a
result without a tag is passed on, and the fault comes where the processor uses
it, `pc = "fault"`. `CCompartment(c)` is the whole constructor with `CreateStack`,
whose mapping may be refused; `CallCompartmentFunction`, `CompartmentSwitchEntry`,
`CompartmentUnwrap`, the service call and the return carry the object of a call,
sealed and unsealed, through the registers c0 to c3. Of the stack the model asks
that there is room for one frame (`Frame`) below its initial pointer; how frames
are laid out is the matter of `CompartmentSwitch`. `stack_size` is cut to
`uint32_t` where the code does so, in `cheri_align_up`.

### ExampleRun

Strings are sequences of characters, blocks of the heap are sequences too, and using
an index that a block has not, or NULL, is `pc = "fault"`. The conversions are those
of the code: `int` to `int16_t` in the argument of the call, `int16_t` to `size_t`
before the comparison, `unsigned` printed as `int`. The widths are constants. A signed
sum that overflows may be anything. `malloc` may fail whenever it is called.
Cutting the string, printing and restoring are one action, as nothing runs in between.

### CapMgr

`CapMgr` instantiates three modules with one set of variables each, and
adds main's own. `LibsStep` is a step of the libraries, in which `LibsLoaded` and
`DumpLibs` add to theirs whether the user has asked for the tables to be dumped; a step of a call is a step
of `CompartmentSetup` (how control gets there) and of `ExampleRun` (what it is
about) at once, where both have one: `CallApiFn`, `FunctionReturns`,
`FunctionCallsService`, `ServiceDone`. Calls happen while `libs_pc = "running"`; an
exception of the proxy ends the run of the libraries as well. `FunctionWrites` is the
compartment storing to its own slots, now only while a function of it runs.
The parts of the switch that are not in the composition are its frames
and registers: they share no state with the libraries or the heap.

An option is its kind and the number that `atoi` reads; `argv` is what is left of it.

## 3. What the runs check

| run | bounds | checks |
|---|---|---|
| `switch` | 3 calls, 2 argument values, the five functions of the example, one with two services, one with an unknown service, one the library lacks; restricted registers 0 or -100 at the start | seven invariants, refinement of `CallProtocol`, `CallsReturn` |
| `patch` | 8 processes, up to 3 libraries with 3 tables each, 7 slots, 7 pages, 2 slots written by the compartment | six invariants, three action properties, refinement of `Confinement`, termination |
| `setup` | 4 compartments, 3 functions, 3 libraries, 2 places for mappings, addresses of 0 to 40 | four invariants |
| `example` | 4 levels, 2 sums, 4 strings, all values of a 4-bit `int` as the number; `int16_t` of 3 bits; one block | six invariants |
| `cap_mgr` | 91 command lines of up to 2 arguments, 3 processes, 3 libraries, all levels, 2 numbers, one block, one slot written | three invariants, termination |

Seven more runs show the disagreements of section 5.

Why the bounds are enough:

- *Switch.* A call leaves nothing behind but the restricted registers, the
  overwritten stack slots and the proxy, so the third call already starts in a
  state that earlier ones produced; the nesting depth of two is the code's own limit
  (a service does not call the compartment).
- *Patching.* The link maps contain each of the ways an entry, a table or a value may be
  out of order, alone, and the dynamic linker and the application entry among the good
  ones; two slots written by the compartment allow a value to be copied on.
- *Set-up.* The four compartments are the example's; one whose stack is smaller than a
  page; one whose size wraps when it is aligned, so that the mapping is of no
  bytes; and one whose sealing identifier is so high that twice its value is out of reach.
  Stack bounds are rounded from 6 words on. There are two places for four stacks, so
  that mappings are refused for want of room as well as at will.
- *Example.* The machine is scaled so that all of its numbers can be tried: an `int` in
  the model wraps around an `int16_t` as the real one does, and the strings are
  empty, shorter than the greatest `int16_t`, and longer than it. Main holds one
  buffer at a time. The proofs are for the real widths.
- *Composition.* Two arguments allow an option to be overridden and an invalid one to
  follow a valid one; the libraries lack nothing, the entry point, or one function.

Safety:

- `CallerStateRestored`: main's side gets back its stack pointer and the registers x19
  to x28. Its frame pointer is not in it: `FramePointerPreserved` is violated, section 5.
- `ServiceCallTransparent`: a compartment function that called a service gets back stack
  pointer, frame pointer and saved registers. Its `CompartmentCaller` is on the
  restricted stack, where the switch pushes nothing, so the overrun does not reach it.
- `StateMatchesCode`: restricted code restricted and on its stack, manager code
  executive.
- `OpenFramesIntact`: what is pushed below an open frame does not reach the return
  address and frame pointer in it. (It does reach another slot, see section 5.)
- `RestrictedStateRestoredExceptRcsp`: the part of "restore the restricted state
  environment" that the code achieves.
- `ProxyIsCurrent`: no dangling global.
- `Confined`: the purpose of the patching: nothing that a relocation of a loaded
  library names is executive while the compartment runs, also when the run got
  there around failures.
- `NeverWritableAndExecutable`, `StoreNeverFaults`, `ProtectionFollowsHeaders`: page
  protection during and after the passes.
- `RoundTrip`: after a good end each symbol that the compartment did not write, and
  that `fixup_cap` can build again (`Rebuildable`), is what the linker had made, or that
  with the executive permission added: the revert pass grants it to every capability it
  comes to (section 5). It says nothing of a capability that is not within `fixup_cap` or
  has a permission that `fixup_cap` lacks; the first pass loses what it was.
- `OnlySymbolsOfLoadedLibs`: what a pass touches. `PatchOnlyRestricts`: what the first pass
  does to a capability: no permission more, the same address, bounds within those of
  `fixup_cap`, and if it lay within them, nothing changed but the permissions.
- `EachStepAdvances`: what every step of main does: it brings main further, or leaves
  less to come of the loop it is in (link map, libraries, blocks, tables, relocations),
  also on the ways out after a failure. No step is retried or done twice.
- `Privileges`, for any rounding of bounds: entry and function are those of the library,
  with its bounds, not executive and not writable; the stack does not reach out of its mapping and
  does not execute; a sealer that has its tag seals and unseals with its own
  identifier, and nothing else than sealing, within the range that the constructor asks for.
  That range is `seal_id + 1` identifiers, not one: see the end of section 5.
- `RunsOnlyPrepared`: nothing checks the tags that the intrinsics return, and yet no
  function, and no service, runs on behalf of a compartment whose set-up failed, and
  what it gets is the object of this call.
- `FaultOnlyIfUnprepared`: the converse: with memory and symbols in place a call does
  not fault, whatever its stack size and sealing identifier are. This is where the sealer's bounds,
  of length `seal_id + 1`, make calls fail: at the upper end of what the kernel's sealing
  capability covers (`SealerFits`), and nowhere else.
- `FaultOnlyWithoutMemory`: the conversions of the number of characters keep the cut
  inside the block. `PrintedAsAsked`: for every `int`, what is printed is the beginning of
  the string of exactly the length that the number has as an `int16_t`, or the whole
  string if that is negative or too long.
- `HeapBalanced`, `StringIntact`: the block that travels through main.
- `ResultsReachMain`: level, sum and success, as main then has them.
- `RunsConfined`: `Confined` for the functions that really run, not for a phase.
- `GoodEnd`: what a return value of 0 promises.
- `LevelInForce`: the one option that both sides check, each against an enumeration
  of its own.
- `TypeOK` in each part; for the switch it includes that no return goes through a slot
  that holds no return address, and for the example that arguments and results are of
  the call they belong to.

Refinement: `ImplementsProtocol`. The open calls are read off the machine, from
the return addresses in the frames that are open on the executive stack, so the
refinement fails when a frame is lost, doubled or belongs to another caller.
`ImplementsConfinement`: the set of executive symbols is computed from memory, the phase from
where the passes stand. A pass that grants anything before the compartment is done,
or that lets it run early, is not a behaviour of `Confinement`.

Liveness: `CallsReturn`, and `Ends` of the patching and of the whole program, under
weak fairness of the step relation of the program: one thread runs, and what can be
executed next is. It does not cover the compartment's stores. It does include that an
API function comes back; the framework has no means to interrupt one.

## 4. What is proved

`CompartmentSwitchProofs`, for stacks and frames of any size that satisfy
`FrameAssumption`, any API, services and number of calls: the seven invariants
of run `switch`. The inductive invariant is `TypeOK /\ ProxyIsCurrent /\ Place`.
`Place` says for each value of `pc` where the stack pointers stand and what the
slots of the open frames hold; it is needed because a register comes back right
only if nothing written in between aliases its slot, which no single property
says. Each action maps one place to another; the arithmetic of frame offsets is
left to the solver one slot at a time.

`CompartmentSwitchRefinement`: `SwitchImplementsProtocol`, under the same assumptions.
From `Place` follows what the open calls are at each value of `pc` (`OpenedAt`:
none, main's, or main's and the compartment's service call). A second invariant, `Flow`, follows
the request from the caller's object through c2 and c0 to the callee, and the reply
back. With both, each action is a call, a return or a stutter of `CallProtocol`.

`RelocationPatchProofs`, for any link map, memory, page layout and `fixup_cap` that
satisfy `ImageAssumption`: all safety and action properties of run `patch`.

- `Structure`: where the two nested loops stand and what main knows by then (for
  example that in a pass every loadable entry is in `m_so_map`).
- Confinement: every slot of the finished libraries, and of the tables and entries
  already visited in the current one, is not executive. `AllVisited` closes it: at
  the end of the third table the visited slots are all slots.
- Protection: the blocks of finished libraries are as their headers say, those of
  the current one writable once all its calls have succeeded. It uses that blocks
  share no page.
- Round trip: an unwritten slot holds the linker's value or what patching makes of
  it (`Taken`), and in the revert pass visited slots hold what reverting makes of that
  (`Given`). It rests on `FixupInverse` (what patching and reverting make of a
  rebuildable value, and that either twice is either once; needed since two entries may
  name one slot), and that on `DeriveWithin` of `CapabilityProofs`. `GivenReverted` adds
  that it is the value again, with the executive permission.
- `PatchOnlyRestricts` adds that every value in memory is a proper capability, and, for one
  that is not within `fixup_cap`, what `DerivePlace` says of where it comes to lie.
- `PatchingConfines`: the refinement of `Confinement`, from the confinement invariant
  and the fact that a patched value is not executive.
- `EachStepAdvances`: a measure of what is left, in lexicographic order: how far main is
  (`Further`), entries of the link map or libraries of the pass, the part of
  `DoLibCapFixups`, and the rest of its loop. Each has a lower bound, so however long the
  lists are only finitely many steps can be taken; the measure uses `Structure`, for
  example that the library being restored is one of those left.

`CompartmentSetupProofs`, for any number of compartments, stack sizes, identifiers,
rounding and libraries that satisfy `SetupAssumption`: the four invariants of run
`setup`. Lemmas say when the result of each derivation has a tag (`RestrictedEntryValue`
and its likes); the inductive invariant says that what a compartment holds is what the constructor
derived (`MadeOnce`), and that the registers of a call hold what was sealed for it
(`InCall`), with its tag exactly if the sealer fits.

`ExampleRunProofs`, for any input, string length and widths that satisfy
`ExampleAssumption` (a string, and what a negative `int16_t` is as a `size_t` above it,
fit into `size_t`): the six invariants of run `example`. The lemmas give the values of the
conversions and of `strlen` (`SignedValue`, `SignedCongruent`, `StrlenIs`, `PositionValue`), and that cutting
a string and putting the character back is the identity (`CutString`). The invariant
follows the block: who holds it (`Blocks`), what is in it (`Contents`), and that a failed
`malloc` leads to the fault of the next call only (`Memory`).

`CapMgrParts`: every step of the whole program is one of the libraries or leaves them
alone, and is one of the compartment's set-up or leaves it alone. So the program implements
`RelocationPatch` (`CapMgrImplementsRelocationPatch`) and `CompartmentSetup`
(`CapMgrImplementsSetup`), and the theorems about the two hold in it: `CapMgrConfined`,
`CapMgrRoundTrip`, `CapMgrConfines` (refinement of `Confinement`),
`CapMgrRunsPrepared`, `CapMgrPrivileges`. They are cited by instantiating the proof modules with the
substitutions of `CapMgr`, which obliges to show that the constants of `CapMgr` satisfy what
they assume, from `PartsAssumption`. tlapm takes `Libs!PatchCap` and `LibsProofs!PatchCap`,
two instances of one definition, for two operators: the lemmas `...Same...` show definition by
definition that they are equal.

`CapMgrProofs`, for any command lines, processes, libraries and inputs: the three invariants of
run `cap_mgr`. Their inductive invariant, `CapMgrInv`, has three parts.

- `LevelInv`: the level through main, the first call and the first result; every other step
  leaves them alone. It gives `LevelInForce`.
- `ExampleInv`: the invariant of `ExampleRunProofs`, in the program. `ExampleRun` is not implemented by
  `CapMgr`, since the options change the level that main is going to pass; but until they
  are read the example is in an initial state of its own, of another input. It gives
  `CapMgrCallsAnswered`: memory, strings, output and results of the five calls are as in `ExampleRun` alone.
- `InStep`: how the parts keep step. The libraries wait for the options, a pass that reverts and a return
  value of 0 come after the calls, and a call goes on only while the libraries are patched,
  in the compartment and the function that main has asked for.

`RunsConfined` follows from `InStep` and `CapMgrConfined`: code of the compartment runs in a call
only, so while the libraries are `running`, so with no symbol executive. `GoodEnd` follows from
all of them and `CapMgrRoundTrip`: a return value of 0 puts both the switch and the example at `exit`,
and there the example's invariant says that it was through all five calls.

The assumptions are `CapabilityAssumption`, `FrameAssumption`, `ApiAssumption`,
`ImageAssumption`, `SetupAssumption`, `ExampleAssumption`, `CommandAssumption`, and
`PartsAssumption`, which says those of its parts of the constants of `CapMgr`; each is beside the
constants it is about, and TLC evaluates them in the runs.

Only model-checked: liveness (`CallsReturn`, and `Ends` of `RelocationPatch` and `CapMgr`).
TLAPS as used here does not prove liveness under fairness or facts about ENABLED. For
the passes `EachStepAdvances` is the part that needs neither: what TLC adds is that the
program is never stuck and that fairness makes it move.
Induction over data is avoided: no RECURSIVE operator is used and loops are steps of
the specification, so induction over behaviours is enough.

## 5. Where code and documents disagree

| run | statement | what happens |
|---|---|---|
| `switch_fp` | `comp_caller.c:20`: "FP is not actually clobbered, because CompartmentEntry() does preserve FP"; `compartment_caller_asm.S:27-28`: the frame record is at the top of the frame | `stp` of two 16-byte registers at offset 64 of an 80-byte frame writes the caller's lowest slot. With GCC's frames that slot holds the saved frame pointer: `CompartmentCaller` reloads CLR in its place, and `CallCompartmentFunction` goes on with a wrong c29 |
| `switch_rcsp` | `compartment_caller_asm.S:115-116`: restore the restricted state environment | in a callback that write hits the RCSP slot of the outer frame: main gets CLR in RCSP |
| `switch_proxy` | `comp_entry.cpp:119`: "Cleanup, proxy no longer needed" | `release()` deletes nothing: one object is leaked per call |
| `patch_teardown` | `main.cpp:72` and design document 3.2.1: patches are reversed ahead of exit | if patching fails after the first library, main returns at line 160 without reverting |
| `patch_revert` | `main.cpp:82`: "Revert capability relocation fixups..." | the revert adds EXECUTIVE to every tagged capability (`CRelocationTable.h:82`), also to those that never had it: `{load}` ends as `{load, executive}` |
| `patch_relro` | `CSharedObject.cpp:207`: restored to original access settings | the header's flags are restored: RELRO pages end writable |
| `setup_stack` | `CCompartment.cpp:90-92`: no memory for the stack is an exception | `MAP_FAILED` is not null: the compartment is made, and its first call faults |

The wrong c29 goes no further than `CallCompartmentFunction`: its own epilogue reloads that of
main, whose frame the overrun does not reach. Until then the function uses c29, if the
compiler addresses its locals by it.

Three more differences have no run. The sealer's bounds are set to the length
`seal_id + 1` (`CCompartment.cpp:49`), it seems in place of an end: they reach over all
identifiers from `seal_id` to `2 * seal_id`, and those of other compartments may be among
them. No text of the repository says how far they should reach, so there is nothing to
refute. What main and `print_help` print as the name of the program is `argv[0]` after the
loop over the options has moved `argv` on: the null pointer that ends it at
`main.cpp:151`, the offending option at lines 128 to 146, where `main.cpp:92-94` has
`exe_name`. And a library that cannot be opened
ends the program by an exception that nothing catches, ahead of the message of
`main.cpp:159-160`.

## 6. Not modelled

Logging and other output that no property is about; the contents of table dumps
(that dumping may throw is modelled); string matching of options and library names;
functions nothing calls (`GetStrTab`, `GetSoName`, `ResolveSymbolAddr`,
`include_loader`). The ELF encoding of the tables: a table is its entries, or absent,
or malformed. The linker's work, and the termination functions after main returns.
Stream output and getters of the capability class. The declarations copied from glibc
and the build files have no behaviour of their own.

Frames and registers of the switch are not part of the composition `CapMgr`, and
the composition has one compartment, as main has; several are in `CompartmentSetup`.
That a compartment's stack has a guard below it is not stated: rounding of the bounds
may take the 16 bytes that the code leaves out.

## 7. Plan

All of the first plan is done: the switch, the patching, the set-up, the example and the
whole program are modelled, the refinements and every safety and action property that
the runs check are proved. What would come next:

1. The measure of the passes (`EachStepAdvances`) extended to the whole of `CapMgr`, with
   the options and the five calls, and one for the depth of calls in `CompartmentSwitch`.
2. `CompartmentSwitch` with several compartments, once main makes more than one.
