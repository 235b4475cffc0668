-------------------------------- MODULE CapMgr --------------------------------
(***************************************************************************)
(* The whole program: main reads its options, has the compartment library  *)
(* loaded and patched, makes the proxy and its compartment, calls the five *)
(* functions, and has the patches reverted.  (main.cpp.)                   *)
(*                                                                         *)
(* Composes RelocationPatch (what becomes of the libraries),               *)
(* CompartmentSetup (what a call needs to get to the compartment) and      *)
(* ExampleRun (what the calls are about): a step of main's calls is a step *)
(* of the last two at once.                                                *)
(***************************************************************************)
EXTENDS Integers, Sequences

CONSTANTS
  CommandLines,   \* what the user may give the program
  Perm, MaxAddr, Representable(_, _, _),
  Slot, Page, PageOf, Images, fixup_cap, MaxWrites,
  Id, stack_size, seal_id, PageSize, UIntMod, Function, Libraries, Frame,
  MmapAt(_), MmapPerms, Round(_, _), AT_CHERI_SEAL_CAP, AT_CHERI_EXEC_RX_CAP,
  Char, NUL, Block, NULL, Inputs, ShortHalf, IntHalf, SizeMod

ALWAYS == 0
WARNING == 2
VERBOSE == 4

(* An element of argv; n is the number of "-v=" that atoi reads, or 0 if   *)
(* "--comp-lib=" is followed by nothing.  opt is "word" if it starts with  *)
(* no dash, "name" in argv[0] as the program gets it.                      *)
Arg     == [opt : {"name", "comp-lib", "v", "dump_tables", "other", "word"}, n : Int]
Program == [opt |-> "name", n |-> 0]

ASSUME CommandAssumption ==
  /\ CommandLines \subseteq Seq([opt : {"comp-lib", "v", "dump_tables", "other", "word"}, n : Int])
  (* Inputs has what main passes whatever the level is.                    *)
  /\ \A x \in Inputs, l \in ALWAYS .. VERBOSE : [x EXCEPT !.level = l] \in Inputs
  /\ Function = {"example_set_compartment_debug_level", "example_add_two_numbers",
                 "example_copy_string_to_heap", "example_print_heap_string_and_free",
                 "example_dump_struct"}

VARIABLES
  at,             \* where main is: "start", "options", "help", "program"
  argv,           \* from the argument that main is at
  dump_relocation_tables,
  Level,          \* of the manager's log
  (* RelocationPatch *)
  image, libs_pc, mem, prot, link_map, m_so_map, makeRestricted, left, so, block, result,
  table, reloc, ret, written,
  (* CompartmentSetup *)
  comp_pc, lib, this, fn, mapping, csp, m_sealer_cap, m_comp_entry, made, fp, c0, c1, c2, c3,
  (* ExampleRun; input.level is log_verbose_level *)
  call_pc, call, input, data, g_log_level, heap, sz_bytes, mem_buff, results, stdout, exhausted

Libs    == INSTANCE RelocationPatch WITH pc <- libs_pc
Setup   == INSTANCE CompartmentSetup WITH
             pc <- comp_pc, CompartmentId <- {Id}, SizeMod <- UIntMod
Example == INSTANCE ExampleRun WITH pc <- call_pc

(* What the parts assume of their constants.                               *)
ASSUME PartsAssumption ==
  /\ Libs!CapabilityAssumption /\ Libs!ImageAssumption
  /\ Setup!SetupAssumption /\ Example!ExampleAssumption

main     == <<at, argv, dump_relocation_tables, Level>>
libs     == <<image, libs_pc, mem, prot, link_map, m_so_map, makeRestricted, left, so, block,
              result, table, reloc, ret, written>>
calls    == <<lib, this, fn, mapping, csp, m_sealer_cap, m_comp_entry, made, fp, c0, c1, c2, c3>>
setup    == <<comp_pc, calls>>
program  == <<call, data, g_log_level, heap, sz_bytes, mem_buff, results, stdout, exhausted>>
example  == <<call_pc, input, program>>
vars     == <<main, libs, setup, example>>

Init ==
  /\ at = "start"
  /\ argv \in {<<Program>> \o options : options \in CommandLines}
  /\ dump_relocation_tables = FALSE
  /\ Level = ALWAYS
  /\ Libs!Init /\ Setup!Init /\ Example!Init
  /\ input.level = WARNING
------------------------------------------------------------------------------
(* Options *)

StartOptions ==
  /\ at = "start"
  /\ at' = "options" /\ argv' = Tail(argv)
  /\ UNCHANGED <<dump_relocation_tables, Level, libs, setup, example>>

(* Mutant: one level more than there is.                                   *)
ValidOneMore(o) ==
  \/ o.opt = "comp-lib" /\ o.n # 0
  \/ o.opt = "v" /\ ~(o.n < 0 \/ o.n > VERBOSE + 1)
  \/ o.opt = "dump_tables"
Valid(o) ==
  \/ o.opt = "comp-lib" /\ o.n # 0
  \/ o.opt = "v" /\ ~(o.n < 0 \/ o.n > VERBOSE)
  \/ o.opt = "dump_tables"

(* Mutant: the loop does not advance.                                      *)
AfterOptionSame == argv
AfterOption     == Tail(argv)

TakeOption ==
  /\ at = "options" /\ argv # <<>> /\ Valid(Head(argv))
  /\ dump_relocation_tables' = (dump_relocation_tables \/ Head(argv).opt = "dump_tables")
  /\ input' = (IF Head(argv).opt = "v" THEN [input EXCEPT !.level = Head(argv).n] ELSE input)
  /\ argv' = AfterOption
  /\ UNCHANGED <<at, Level, libs, setup, call_pc, program>>

(* An option that is not valid, or an argument that is none.               *)
print_help ==
  /\ at = "options" /\ argv # <<>> /\ ~Valid(Head(argv))
  /\ at' = "help"
  /\ UNCHANGED <<argv, dump_relocation_tables, Level, libs, setup, example>>

set_capmgr_log_level ==
  /\ at = "options" /\ argv = <<>>
  /\ Level' = (IF input.level > VERBOSE THEN VERBOSE ELSE input.level)
  /\ at' = "program"
  /\ UNCHANGED <<argv, dump_relocation_tables, libs, setup, example>>
------------------------------------------------------------------------------
(* The libraries *)

(* lib_load_and_fix: the tables are dumped before they are used.           *)
LibsLoaded == ~(dump_relocation_tables /\ Libs!MalformedIn(m_so_map)) /\ Libs!LibsLoaded
DumpLibs   == dump_relocation_tables /\ Libs!DumpThrows

LibsStep ==
  /\ at = "program"
  /\ \/ Libs!Dlopen \/ Libs!DlopenFails \/ Libs!ParseEntry \/ Libs!LoadThrows
     \/ Libs!NothingLoaded \/ LibsLoaded \/ DumpLibs
     \/ Libs!PassDone \/ Libs!PassFails \/ Libs!DoLibCapFixups
     \/ Libs!ProtectBlock \/ Libs!ProtectFails \/ Libs!Unprotected \/ Libs!Restored
     \/ Libs!PatchCap \/ Libs!SkipReloc \/ Libs!NextTable \/ Libs!MalformedTable
     \/ Libs!TablesDone \/ Libs!DeleteLibs
  /\ UNCHANGED <<main, setup, example>>
------------------------------------------------------------------------------
(* The proxy and the calls.  Once the libraries are patched main has the   *)
(* compartment; an exception or a fault in it ends the program.            *)
Running == at = "program" /\ libs_pc = "running"

CCompartment ==
  /\ Running
  /\ Setup!CCompartment(Id)
  /\ UNCHANGED <<main, libs, example>>

EntryPointNotFound ==
  /\ Running
  /\ Setup!EntryPointNotFound(Id) /\ Libs!RunThrows
  /\ UNCHANGED <<main, example>>

FunctionName == <<"example_set_compartment_debug_level", "example_add_two_numbers",
                  "example_copy_string_to_heap", "example_print_heap_string_and_free",
                  "example_dump_struct">>
Calling == Running /\ call \in 1 .. 5

CallApiFn ==
  /\ Calling
  /\ Example!CallApiFn /\ Setup!CallCompartmentFunction(Id, FunctionName[call])
  /\ UNCHANGED <<main, libs>>

FunctionNotFound ==
  /\ Calling /\ call_pc = "main"
  /\ Setup!FunctionNotFound(Id, FunctionName[call]) /\ Libs!RunThrows
  /\ UNCHANGED <<main, example>>

(* The switcher, and the compartment up to the function that is called.    *)
Switch ==
  /\ Running
  /\ Setup!CompartmentSwitchEntry \/ Setup!CompartmentUnwrap
  /\ UNCHANGED <<main, libs, example>>

(* A function returns to main.                                             *)
FunctionReturns ==
  /\ Running
  /\ \/ Example!example_set_compartment_debug_level \/ Example!example_add_two_numbers
     \/ Example!CopyString \/ Example!NoMemory \/ Example!PrintReturns
     \/ Example!example_dump_struct
  /\ Setup!CompartmentSwitchReturn
  /\ UNCHANGED <<main, libs>>

(* A function calls a service; the service is done.                        *)
FunctionCallsService ==
  /\ Running
  /\ Example!example_copy_string_to_heap \/ Example!example_print_heap_string_and_free
  /\ Setup!CompartmentServiceCallback
  /\ UNCHANGED <<main, libs>>

ServiceDone ==
  /\ Running
  /\ Setup!CompartmentServiceHandler
  /\ IF c0.tag THEN Example!Service ELSE UNCHANGED example
  /\ UNCHANGED <<main, libs>>

FunctionFaults ==
  /\ Running /\ comp_pc = "Function"
  /\ Example!CapabilityFault
  /\ UNCHANGED <<main, libs, setup>>

FunctionWrites ==
  /\ Running /\ comp_pc = "Function"
  /\ call_pc # "fault"
  /\ \E s \in Slot : Libs!CompartmentWrites(s)
  /\ UNCHANGED <<main, setup, example>>

(* Mutant: main does not wait for what it called.                          *)
CallsDoneAtAnyTime == /\ call_pc' = "exit" /\ comp_pc' = "exit"
                      /\ UNCHANGED <<calls, input, program>>
CallsDone == Example!MainEnds /\ Setup!MainExit

(* lib_restore_and_end, when the calls are done.                           *)
lib_restore_and_end ==
  /\ Running
  /\ CallsDone
  /\ Libs!EndStatic \/ Libs!Revert
  /\ UNCHANGED main

Calls ==
  \/ CCompartment \/ EntryPointNotFound \/ CallApiFn \/ FunctionNotFound \/ Switch
  \/ FunctionReturns \/ FunctionCallsService \/ ServiceDone \/ FunctionFaults
  \/ lib_restore_and_end
------------------------------------------------------------------------------
Faulted == "fault" \in {comp_pc, call_pc}
Ended   == at = "help" \/ libs_pc \in {"exit", "terminated"} \/ Faulted

Step == StartOptions \/ TakeOption \/ print_help \/ set_capmgr_log_level \/ LibsStep \/ Calls
Next == Step \/ FunctionWrites \/ (Ended /\ UNCHANGED vars)

(* One thread: what it can do it does.                                     *)
Spec == Init /\ [][Next]_vars /\ WF_vars(Step)

(* What main returns, if it does.                                          *)
Returned == CASE at = "help" -> 1 [] libs_pc = "exit" -> ret [] OTHER -> -1
------------------------------------------------------------------------------
(* Properties. *)

(* No code of the compartment runs, in a call or after a service, unless   *)
(* its libraries are patched and stay so, and it is the function that main *)
(* has asked for, with the argument object of this call.                   *)
RunsConfined ==
  comp_pc \in {"CompartmentUnwrap", "Function"} =>
    /\ libs_pc = "running" /\ {s \in Libs!LibSymbols : Libs!Executive(mem[s])} = {}
    /\ this = Id /\ fn = FunctionName[call]

(* main returns 0 only if the compartment is behind it: every call came    *)
(* back, with memory for all, nothing of the heap is kept, and, unless the *)
(* program is linked with what it loads, the symbols are the linker's, or  *)
(* have gained the executive permission.                                   *)
GoodEnd ==
  libs_pc = "exit" /\ Returned = 0 =>
    /\ comp_pc = "exit" /\ call = 6 /\ results[4] = TRUE /\ ~exhausted
    /\ DOMAIN heap = {}
    /\ ~image.static => \A s \in Slot \ written :
         Libs!Rebuildable(image.mem[s]) => Libs!Reverted(s)

(* README.md:231: the level of the option is the manager's and is passed   *)
(* to the compartment: it is never refused there, and in force after the   *)
(* first call.                                                             *)
LevelInForce ==
  at = "program" =>
    /\ Level = input.level
    /\ call > 1 => results[1] = TRUE /\ g_log_level = Level

(* The program ends, in whichever way.                                     *)
Ends == <>Ended
=============================================================================
