----------------------------- MODULE CapMgrProofs -----------------------------
(***************************************************************************)
(* Theorems about the whole program, for any command line, libraries,      *)
(* memory and arguments: the level of the option is in force on both sides *)
(* (LevelInForce), the compartment runs confined (RunsConfined), and main  *)
(* returns 0 only when the compartment is behind it (GoodEnd).  The        *)
(* inductive invariant has a part for the level (LevelInv), one for the    *)
(* example (ExampleInv) and one for how the parts keep step (InStep); of   *)
(* the libraries it needs what CapMgrParts proves.                         *)
(***************************************************************************)
EXTENDS CapMgrParts

------------------------------------------------------------------------------
(* The level. *)

(* What a call may give main.                                              *)
ResultValue == BOOLEAN \cup Example!Int32 \cup Block \cup {NULL, Example!None}

(* The options still to be read, and the level read so far.                *)
Options ==
  /\ at \in {"start", "options", "help", "program"}
  /\ at \in {"start", "options"} => argv \in Seq(Arg)
  /\ at = "start" => argv # <<>>
  /\ input \in Inputs /\ "level" \in DOMAIN input
  /\ input.level \in 0 .. VERBOSE
  /\ at = "program" => Level = input.level

(* The first call carries the level, and nothing is called before.         *)
FirstCall ==
  /\ call \in Nat \ {0}
  /\ at # "program" => call = 1 /\ call_pc = "main"
  /\ call = 1 => \/ call_pc = "main"
                 \/ call_pc = "CallFunction" /\ data = [debug_level |-> input.level]

(* After it the compartment has the level.                                 *)
Outcome ==
  /\ results \in Seq(ResultValue)
  /\ mem_buff \in Block \cup {NULL}
  /\ call = 1 => results = <<>>
  /\ call > 1 => Len(results) > 0 /\ results[1] = TRUE /\ g_log_level = input.level

LevelInv == Options /\ FirstCall /\ Outcome

LEMMA LevelInit == Init => LevelInv
<1> SUFFICES ASSUME Init PROVE LevelInv
  OBVIOUS
<1> USE DEF Init
<1>1. PICK options \in CommandLines : argv = <<Program>> \o options
  OBVIOUS
<1>2. options \in Seq(Arg)
  <2> DEFINE B == [opt : {"comp-lib", "v", "dump_tables", "other", "word"}, n : Int]
  <2>1. options \in Seq(B)
    BY CommandAssumption
  <2>2. B \subseteq Arg
    BY DEF Arg
  <2> HIDE DEF B
  <2>3. options \in [1 .. Len(options) -> B] /\ Len(options) \in Nat
    BY <2>1
  <2>4. options \in [1 .. Len(options) -> Arg]
    BY <2>2, <2>3
  <2> QED BY <2>3, <2>4
<1>3. argv \in Seq(Arg) /\ argv # <<>>
  <2>1. <<Program>> \in Seq(Arg) /\ Len(<<Program>>) = 1
    BY DEF Program, Arg
  <2>2. Len(argv) = 1 + Len(options) /\ argv \in Seq(Arg)
    BY <1>1, <1>2, <2>1
  <2>3. Len(options) \in Nat
    BY <1>2
  <2> QED BY <2>2, <2>3
<1>4. input \in Inputs /\ call = 1 /\ call_pc = "main" /\ mem_buff = NULL /\ results = <<>>
  BY DEF Example!Init, Example!set_level
<1>5. "level" \in DOMAIN input /\ input.level = WARNING
  <2>1. input \in Example!Input
    BY <1>4, PartsAssumption DEF Example!ExampleAssumption
  <2>2. "level" \in DOMAIN input
    BY <2>1 DEF Example!Input
  <2> QED BY <2>2
<1>6. Options
  BY <1>3, <1>4, <1>5 DEF Options, WARNING, VERBOSE
<1> QED BY <1>4, <1>6 DEF LevelInv, FirstCall, Outcome

(* A step that leaves the options and the calls of main alone.             *)
LEMMA Aside ==
  ASSUME LevelInv, UNCHANGED <<main, example>>
  PROVE  LevelInv'
BY DEF LevelInv, Options, FirstCall, Outcome, main, example, program, ResultValue,
       Example!Int32, Example!None

(* The options.                                                            *)
LEMMA OptionStep ==
  ASSUME LevelInv, StartOptions \/ TakeOption \/ print_help \/ set_capmgr_log_level
  PROVE  LevelInv'
<1> USE DEF LevelInv
<1>1. UNCHANGED <<call_pc, program>>
  BY DEF StartOptions, TakeOption, print_help, set_capmgr_log_level, example
<1>2. at \in {"start", "options"}
  BY DEF StartOptions, TakeOption, print_help, set_capmgr_log_level
<1>3. call = 1 /\ call' = 1 /\ call_pc = "main" /\ call_pc' = "main"
  BY <1>1, <1>2 DEF FirstCall, program
<1>4. FirstCall' /\ Outcome'
  BY <1>1, <1>3 DEF FirstCall, Outcome, program, ResultValue, Example!Int32, Example!None
<1>5. CASE StartOptions
  <2>1. Options'
    BY <1>5 DEF StartOptions, Options, example
  <2> QED BY <1>4, <2>1
<1>6. CASE TakeOption
  <2> DEFINE o == Head(argv)
  <2>0. argv \in Seq(Arg) /\ argv # <<>> /\ argv' = Tail(argv)
    BY <1>6 DEF TakeOption, AfterOption, Options
  <2>1. o \in Arg /\ argv' \in Seq(Arg)
    BY <2>0
  <2>2. o.opt = "v" => o.n \in 0 .. VERBOSE
    BY <1>6, <2>1 DEF TakeOption, Valid, VERBOSE, Arg
  <2>3. "level" \in DOMAIN input' /\ input'.level \in 0 .. VERBOSE
    BY <1>6, <2>2 DEF TakeOption, Options
  <2>4. input' \in Inputs
    BY <1>6, <2>2, CommandAssumption DEF TakeOption, Options, ALWAYS
  <2>5. Options'
    BY <1>6, <2>1, <2>3, <2>4 DEF TakeOption, Options
  <2> QED BY <1>4, <2>5
<1>7. CASE print_help
  <2>1. Options'
    BY <1>7 DEF print_help, Options, example
  <2> QED BY <1>4, <2>1
<1>8. CASE set_capmgr_log_level
  <2>1. Level' = input.level /\ input' = input /\ at' = "program"
    BY <1>8 DEF set_capmgr_log_level, Options, VERBOSE, example
  <2>2. Options'
    BY <2>1 DEF Options
  <2> QED BY <1>4, <2>2
<1> QED BY <1>5, <1>6, <1>7, <1>8

(* A call returns r to main, and the level was what main passed if it was  *)
(* the first.                                                              *)
LEMMA ReturnStep ==
  ASSUME LevelInv, at = "program", UNCHANGED <<main, input, mem_buff>>,
         NEW r \in ResultValue, results' = Append(results, r),
         call' = call + 1, call_pc' = "main",
         call = 1 => r = TRUE /\ g_log_level' = input.level,
         call > 1 => g_log_level' = g_log_level
  PROVE  LevelInv'
<1> USE DEF LevelInv
<1>1. Options' /\ at' = "program"
  BY DEF Options, main
<1>2. call \in Nat \ {0}
  BY DEF FirstCall
<1>3. FirstCall'
  BY <1>1, <1>2 DEF FirstCall
<1>4. results \in Seq(ResultValue)
  BY DEF Outcome
<1>5. results' \in Seq(ResultValue) /\ Len(results') = Len(results) + 1
  BY <1>4
<1>6. call = 1 => results'[1] = r
  BY <1>4 DEF Outcome
<1>7. call > 1 => results'[1] = results[1]
  BY <1>4 DEF Outcome
<1>8. Len(results) \in Nat
  BY <1>4
<1>9. ResultValue' = ResultValue
  BY DEF ResultValue, Example!Int32, Example!None
<1>10. Outcome'
  BY <1>2, <1>5, <1>6, <1>7, <1>8, <1>9 DEF Outcome
<1> QED BY <1>1, <1>3, <1>10

(* A step in a call after the first that does not end it.                  *)
LEMMA LaterStep ==
  ASSUME LevelInv, at = "program", UNCHANGED <<main, input, call, g_log_level, results>>,
         call # 1, mem_buff' \in Block \cup {NULL}
  PROVE  LevelInv'
BY DEF LevelInv, Options, FirstCall, Outcome, main, ResultValue, Example!Int32, Example!None

(* The functions that the calls are about.                                 *)
LEMMA FunctionStep ==
  ASSUME LevelInv, at = "program", UNCHANGED main, Example!Step
  PROVE  LevelInv'
<1> USE DEF LevelInv
<1>1. call \in Nat \ {0}
  BY DEF FirstCall
<1>2. CASE Example!CallApiFn
  <2>1. call_pc' = "CallFunction" /\ UNCHANGED <<call, input, g_log_level, mem_buff, results>>
    BY <1>2 DEF Example!CallApiFn
  <2>2. call = 1 => data' = [debug_level |-> input.level]
    BY <1>2 DEF Example!CallApiFn, Example!Arguments, Example!set_level, Example!add,
                 Example!copy, Example!print
  <2> QED BY <2>1, <2>2 DEF Options, FirstCall, Outcome, main, ResultValue, Example!Int32,
                            Example!None
<1>3. CASE Example!example_set_compartment_debug_level
  <2>1. call = 1 /\ call_pc = "CallFunction"
    BY <1>3 DEF Example!example_set_compartment_debug_level, Example!Runs, Example!set_level
  <2>2. data.debug_level = input.level /\ input.level \in 0 .. VERBOSE
    BY <2>1 DEF FirstCall, Options
  <2>3. Example!LevelAccepted(data.debug_level) = TRUE
    BY <2>2 DEF Example!LevelAccepted, Example!LOG_LEVEL_FATAL, Example!LOG_LEVEL_VERBOSE, VERBOSE
  <2>4. /\ results' = Append(results, TRUE) /\ call' = call + 1 /\ call_pc' = "main"
        /\ g_log_level' = input.level /\ UNCHANGED <<input, mem_buff>>
    BY <1>3, <2>2, <2>3 DEF Example!example_set_compartment_debug_level, Example!Returns
  <2>5. TRUE \in ResultValue
    BY DEF ResultValue
  <2>6. ~(call > 1)
    BY <2>1
  <2> QED BY <2>1, <2>4, <2>5, <2>6, ReturnStep
<1>4. CASE Example!example_add_two_numbers
  <2>1. call # 1
    BY <1>4 DEF Example!example_add_two_numbers, Example!Runs, Example!add
  <2>2. PICK c \in Example!Sum(data.a, data.b) : Example!Returns(c)
    BY <1>4 DEF Example!example_add_two_numbers
  <2>3. c \in ResultValue
    BY <2>2 DEF Example!Sum, ResultValue
  <2> QED BY <1>4, <2>1, <2>2, <2>3, ReturnStep
          DEF Example!example_add_two_numbers, Example!Returns
<1>5. CASE Example!example_copy_string_to_heap
  <2>1. call # 1
    BY <1>5 DEF Example!example_copy_string_to_heap, Example!Runs, Example!copy
  <2>2. UNCHANGED <<input, call, g_log_level, results, mem_buff>>
    BY <1>5 DEF Example!example_copy_string_to_heap
  <2> QED BY <2>1, <2>2, LaterStep DEF Outcome
<1>6. CASE Example!CopyString
  <2>1. call # 1 /\ mem_buff \in ResultValue
    BY <1>6 DEF Example!CopyString, FirstCall, Outcome, ResultValue
  <2> QED BY <1>6, <2>1, ReturnStep DEF Example!CopyString, Example!Returns
<1>7. CASE Example!NoMemory
  <2>1. call # 1 /\ NULL \in ResultValue
    BY <1>7 DEF Example!NoMemory, FirstCall, ResultValue
  <2> QED BY <1>7, <2>1, ReturnStep DEF Example!NoMemory, Example!Returns
<1>8. CASE Example!example_print_heap_string_and_free
  <2>1. call # 1
    BY <1>8 DEF Example!example_print_heap_string_and_free, Example!Runs, Example!print
  <2>2. UNCHANGED <<input, call, g_log_level, results, mem_buff>>
    BY <1>8 DEF Example!example_print_heap_string_and_free
  <2> QED BY <2>1, <2>2, LaterStep DEF Outcome
<1>9. CASE Example!PrintReturns
  <2>1. call # 1 /\ TRUE \in ResultValue
    BY <1>9 DEF Example!PrintReturns, FirstCall, ResultValue
  <2> QED BY <1>9, <2>1, ReturnStep DEF Example!PrintReturns, Example!Returns
<1>10. CASE Example!CapabilityFault
  <2>1. call # 1
    BY <1>10 DEF Example!CapabilityFault, Example!BeyondBounds, Example!Runs, Example!print,
                 FirstCall
  <2> QED BY <1>10, <2>1, LaterStep DEF Example!CapabilityFault, Example!Fault, Outcome
<1>11. CASE Example!example_dump_struct
  <2>1. call # 1 /\ Example!None \in ResultValue
    BY <1>11 DEF Example!example_dump_struct, Example!Runs, Example!dump, ResultValue
  <2> QED BY <1>11, <2>1, ReturnStep DEF Example!example_dump_struct, Example!Returns
<1>12. CASE Example!Service
  <2>1. call # 1
    BY <1>12 DEF Example!Service, Example!cheri_malloc, Example!cheri_free, FirstCall
  <2>2. mem_buff' \in Block \cup {NULL}
    BY <1>12 DEF Example!Service, Example!cheri_malloc, Example!cheri_free, Outcome
  <2>3. UNCHANGED <<input, call, g_log_level, results>>
    BY <1>12 DEF Example!Service, Example!cheri_malloc, Example!cheri_free
  <2> QED BY <2>1, <2>2, <2>3, LaterStep
<1>13. CASE Example!MainEnds
  <2>1. call # 1
    BY <1>13 DEF Example!MainEnds, Example!Api
  <2> QED BY <1>13, <2>1, LaterStep DEF Example!MainEnds, Outcome
<1> QED BY <1>2, <1>3, <1>4, <1>5, <1>6, <1>7, <1>8, <1>9, <1>10, <1>11, <1>12, <1>13
        DEF Example!Step

(* Each step of the program is one of these.                               *)
LEMMA LevelStep ==
  ASSUME LevelInv, [Next]_vars
  PROVE  LevelInv'
<1>1. CASE StartOptions \/ TakeOption \/ print_help \/ set_capmgr_log_level
  BY <1>1, OptionStep
<1>2. CASE LibsStep
  BY <1>2, Aside DEF LibsStep
<1>3. CASE CCompartment \/ EntryPointNotFound \/ FunctionNotFound \/ Switch \/ FunctionWrites
  BY <1>3, Aside
     DEF CCompartment, EntryPointNotFound, FunctionNotFound, Switch, FunctionWrites
<1>4. CASE \/ CallApiFn \/ FunctionReturns \/ FunctionCallsService \/ FunctionFaults
           \/ lib_restore_and_end
  <2>1. at = "program" /\ UNCHANGED main
    BY <1>4 DEF CallApiFn, Calling, FunctionReturns, FunctionCallsService, FunctionFaults,
                lib_restore_and_end, Running
  <2>2. Example!Step
    BY <1>4 DEF CallApiFn, FunctionReturns, FunctionCallsService, FunctionFaults,
                lib_restore_and_end, CallsDone, Example!Step
  <2> QED BY <2>1, <2>2, FunctionStep
<1>5. CASE ServiceDone
  <2>1. at = "program" /\ UNCHANGED main
    BY <1>5 DEF ServiceDone, Running
  <2>2. Example!Step \/ UNCHANGED example
    BY <1>5 DEF ServiceDone, Example!Step
  <2> QED BY <2>1, <2>2, FunctionStep, Aside
<1>6. CASE UNCHANGED vars
  BY <1>6, Aside DEF vars
<1> QED BY <1>1, <1>2, <1>3, <1>4, <1>5, <1>6 DEF Next, Step, Calls

(* The level that the user asks for is the manager's, is never refused by  *)
(* the compartment, and is in force there after the first call.            *)
THEOREM CapMgrLevelInForce == Spec => []LevelInForce
<1>1. LevelInv => LevelInForce
  BY DEF LevelInv, Options, FirstCall, Outcome, LevelInForce
<1> QED BY <1>1, LevelInit, LevelStep, PTL DEF Spec
------------------------------------------------------------------------------
(* The example in the program.  It is not ExampleRun that the program      *)
(* implements, since the options change what main is going to pass; but    *)
(* until they are read the example is in an initial state.                 *)

ExampleInv == (at # "program" => Example!Init) /\ ExampleProofs!IInv

LEMMA ExampleStarts == Example!Init => ExampleProofs!IInv
BY ExampleSameInit, ExampleConstants, ExampleProofs!InitInvariant

LEMMA ExampleStartsNext == Example!Init' => ExampleProofs!IInv'
BY ExampleStarts, PTL

LEMMA ExampleInvInit == Init => ExampleInv
BY ExampleStarts DEF Init, ExampleInv

LEMMA ExampleUnchanged ==
  ASSUME ExampleInv, UNCHANGED example, at' # "program" => at # "program"
  PROVE  ExampleInv'
<1>1. at' # "program" => Example!Init'
  BY DEF ExampleInv, example, program, Example!Init
<1>2. UNCHANGED ExampleProofs!vars
  BY DEF example, program, ExampleProofs!vars
<1>3. ExampleProofs!IInv'
  BY <1>2, ExampleConstants, ExampleProofs!StepInvariant DEF ExampleInv
<1> QED BY <1>1, <1>3 DEF ExampleInv

(* An option gives main another input that it may have started with.       *)
LEMMA ExampleOption ==
  ASSUME ExampleInv, LevelInv', TakeOption
  PROVE  ExampleInv'
<1>1. at # "program" /\ at' # "program" /\ Example!Init
  BY DEF TakeOption, ExampleInv
<1>2. input' \in Inputs
  BY DEF LevelInv, Options
<1>3. UNCHANGED <<call_pc, program>>
  BY DEF TakeOption
<1>4. Example!Init'
  BY <1>1, <1>2, <1>3 DEF Example!Init, program
<1>5. ExampleProofs!IInv'
  BY <1>4, ExampleStartsNext
<1> QED BY <1>4, <1>5 DEF ExampleInv

LEMMA ExampleStep ==
  ASSUME ExampleInv, at = "program", UNCHANGED main, Example!Step
  PROVE  ExampleInv'
<1>1. ExampleProofs!Next
  BY ExampleSameStep DEF ExampleProofs!Next
<1>2. ExampleProofs!IInv'
  BY <1>1, ExampleConstants, ExampleProofs!StepInvariant DEF ExampleInv
<1> QED BY <1>2 DEF ExampleInv, main

LEMMA ExampleNext ==
  ASSUME ExampleInv, LevelInv', [Next]_vars
  PROVE  ExampleInv'
<1>1. CASE StartOptions \/ print_help \/ set_capmgr_log_level
  BY <1>1, ExampleUnchanged DEF StartOptions, print_help, set_capmgr_log_level
<1>2. CASE TakeOption
  BY <1>2, ExampleOption
<1>3. CASE \/ LibsStep \/ CCompartment \/ EntryPointNotFound \/ FunctionNotFound \/ Switch
           \/ FunctionWrites
  BY <1>3, ExampleUnchanged
     DEF LibsStep, CCompartment, EntryPointNotFound, FunctionNotFound, Switch, FunctionWrites, main
<1>4. CASE \/ CallApiFn \/ FunctionReturns \/ FunctionCallsService \/ FunctionFaults
           \/ lib_restore_and_end
  <2>1. at = "program" /\ UNCHANGED main
    BY <1>4 DEF CallApiFn, Calling, FunctionReturns, FunctionCallsService, FunctionFaults,
                lib_restore_and_end, Running
  <2>2. Example!Step
    BY <1>4 DEF CallApiFn, FunctionReturns, FunctionCallsService, FunctionFaults,
                lib_restore_and_end, CallsDone, Example!Step
  <2> QED BY <2>1, <2>2, ExampleStep
<1>5. CASE ServiceDone
  <2>1. at = "program" /\ UNCHANGED main
    BY <1>5 DEF ServiceDone, Running
  <2>2. Example!Step \/ UNCHANGED example
    BY <1>5 DEF ServiceDone, Example!Step
  <2> QED BY <2>1, <2>2, ExampleStep, ExampleUnchanged DEF main
<1>6. CASE UNCHANGED vars
  BY <1>6, ExampleUnchanged DEF vars, main
<1> QED BY <1>1, <1>2, <1>3, <1>4, <1>5, <1>6 DEF Next, Step, Calls
------------------------------------------------------------------------------
(* How the parts keep step. *)

InCall == {"CompartmentSwitchEntry", "CompartmentUnwrap", "Function", "CompartmentServiceHandler"}

(* Nothing of the libraries happens before the options are read; they are  *)
(* being reverted, or main is to return 0, only when the calls are over;   *)
(* and while one is going on they stay patched.                            *)
InStep ==
  /\ at # "program" => libs_pc = "dlopen"
  /\ ~makeRestricted \/ ret = 0 => comp_pc = "exit" /\ call_pc = "exit"
  /\ comp_pc \in InCall => libs_pc = "running" /\ this = Id /\ fn = FunctionName[call]

LEMMA InStepInit == Init => InStep
BY DEF Init, Libs!Init, Setup!Init, InStep, InCall

(* A step of the libraries is none of the running compartment.             *)
LEMMA InStepLibs ==
  ASSUME InStep, LibsStep
  PROVE  InStep'
<1>1. at = "program" /\ UNCHANGED <<main, setup, example>>
  BY DEF LibsStep
<1>2. libs_pc # "running" /\ (~makeRestricted' \/ ret' = 0 => ~makeRestricted \/ ret = 0)
  <2> USE DEF Libs!parsed, Libs!pass, Libs!protecting, Libs!patching, Libs!progress
  <2>1. CASE \/ Libs!Dlopen \/ Libs!DlopenFails \/ Libs!ParseEntry \/ Libs!LoadThrows
             \/ Libs!NothingLoaded \/ Libs!DumpThrows \/ Libs!MalformedTable
    BY <2>1 DEF Libs!Dlopen, Libs!DlopenFails, Libs!ParseEntry, Libs!LoadThrows,
                Libs!NothingLoaded, Libs!DumpThrows, Libs!MalformedTable, Libs!Throw
  <2>2. CASE Libs!LibsLoaded \/ Libs!PassDone \/ Libs!PassFails \/ Libs!DoLibCapFixups
    BY <2>2 DEF Libs!LibsLoaded, Libs!StartPass, Libs!PassDone, Libs!PassFails,
                Libs!DoLibCapFixups
  <2>3. CASE Libs!ProtectBlock \/ Libs!ProtectFails \/ Libs!Unprotected \/ Libs!Restored
    BY <2>3 DEF Libs!ProtectBlock, Libs!ProtectFails, Libs!Unprotected, Libs!Restored
  <2>4. CASE \/ Libs!PatchCap \/ Libs!SkipReloc \/ Libs!NextTable \/ Libs!TablesDone
             \/ Libs!DeleteLibs
    BY <2>4 DEF Libs!PatchCap, Libs!SkipReloc, Libs!NextTable, Libs!TablesDone,
                Libs!DeleteLibs, Libs!InTable
  <2> QED BY <2>1, <2>2, <2>3, <2>4 DEF LibsStep, LibsLoaded, DumpLibs
<1> QED BY <1>1, <1>2 DEF InStep, InCall, main, setup, calls, example, program

LEMMA InStepNext ==
  ASSUME InStep, [Next]_vars
  PROVE  InStep'
<1> USE DEF InStep, InCall
<1>1. CASE StartOptions \/ TakeOption \/ print_help \/ set_capmgr_log_level
  BY <1>1 DEF StartOptions, TakeOption, print_help, set_capmgr_log_level, libs, setup, calls,
              example, program
<1>2. CASE LibsStep
  BY <1>2, InStepLibs
<1>3. CASE CCompartment
  BY <1>3 DEF CCompartment, Setup!CCompartment, main, libs, example, program, Setup!registers
<1>4. CASE EntryPointNotFound
  BY <1>4 DEF EntryPointNotFound, Running, Setup!EntryPointNotFound, Libs!RunThrows, Libs!Throw,
              Libs!progress, Libs!pass, main, example, program
<1>5. CASE FunctionNotFound
  BY <1>5 DEF FunctionNotFound, Calling, Running, Setup!FunctionNotFound, Libs!RunThrows,
              Libs!Throw, Libs!progress, Libs!pass, main, example, program
<1>6. CASE CallApiFn
  BY <1>6 DEF CallApiFn, Calling, Running, Setup!CallCompartmentFunction, Example!CallApiFn,
              main, libs
<1>7. CASE Switch
  BY <1>7 DEF Switch, Running, Setup!CompartmentSwitchEntry, Setup!CompartmentUnwrap, main, libs,
              example, program
<1>8. CASE FunctionReturns
  BY <1>8 DEF FunctionReturns, Running, Setup!CompartmentSwitchReturn, main, libs
<1>9. CASE FunctionCallsService
  BY <1>9 DEF FunctionCallsService, Running, Setup!CompartmentServiceCallback, main, libs,
              Example!example_copy_string_to_heap, Example!example_print_heap_string_and_free
<1>10. CASE ServiceDone
  BY <1>10 DEF ServiceDone, Running, Setup!CompartmentServiceHandler, main, libs, example,
               program, Example!Service, Example!cheri_malloc, Example!cheri_free
<1>11. CASE FunctionFaults
  BY <1>11 DEF FunctionFaults, Running, Example!CapabilityFault, Example!Fault, main, libs,
               setup, calls
<1>12. CASE FunctionWrites
  BY <1>12 DEF FunctionWrites, Running, Libs!CompartmentWrites, Libs!progress, Libs!pass, main,
               setup, calls, example, program
<1>13. CASE lib_restore_and_end
  BY <1>13 DEF lib_restore_and_end, Running, CallsDone, Example!MainEnds, Setup!MainExit, main
<1>14. CASE UNCHANGED vars
  BY <1>14 DEF vars, main, libs, setup, calls, example, program
<1> QED BY <1>1, <1>2, <1>3, <1>4, <1>5, <1>6, <1>7, <1>8, <1>9, <1>10, <1>11, <1>12, <1>13, <1>14
        DEF Next, Step, Calls
------------------------------------------------------------------------------
(* The theorems. *)

CapMgrInv == LevelInv /\ ExampleInv /\ InStep

LEMMA CapMgrAlways == Spec => []CapMgrInv
<1>1. Init => CapMgrInv
  BY LevelInit, ExampleInvInit, InStepInit DEF CapMgrInv
<1>2. CapMgrInv /\ [Next]_vars => CapMgrInv'
  BY LevelStep, ExampleNext, InStepNext DEF CapMgrInv
<1> QED BY <1>1, <1>2, PTL DEF Spec

LEMMA ExampleHolds ==
  ASSUME ExampleInv
  PROVE  /\ Example!FaultOnlyWithoutMemory /\ Example!HeapBalanced /\ Example!StringIntact
         /\ Example!PrintedAsAsked /\ Example!ResultsReachMain
<1>1. ExampleProofs!IInv
  BY DEF ExampleInv
<1>2. /\ ExampleProofs!FaultOnlyWithoutMemory /\ ExampleProofs!HeapBalanced
      /\ ExampleProofs!StringIntact /\ ExampleProofs!PrintedAsAsked
      /\ ExampleProofs!ResultsReachMain
  BY <1>1, ExampleConstants, ExampleProofs!InvariantImplies
<1> USE DEF Example!set_level, ExampleProofs!set_level, Example!add, ExampleProofs!add,
            Example!copy, ExampleProofs!copy, Example!print, ExampleProofs!print
<1>3. Example!FaultOnlyWithoutMemory /\ Example!HeapBalanced
  BY <1>2 DEF Example!FaultOnlyWithoutMemory, ExampleProofs!FaultOnlyWithoutMemory,
         Example!HeapBalanced, ExampleProofs!HeapBalanced
<1>4. Example!StringIntact
  BY <1>2, ExampleSameValues DEF Example!StringIntact, ExampleProofs!StringIntact
<1>5. Example!PrintedAsAsked
  BY <1>2 DEF Example!PrintedAsAsked, ExampleProofs!PrintedAsAsked, Example!Shorter,
         ExampleProofs!Shorter, Example!CharsPrinted, ExampleProofs!CharsPrinted,
         Example!Short, ExampleProofs!Short
<1>6. Example!ResultsReachMain
  BY <1>2 DEF Example!ResultsReachMain, ExampleProofs!ResultsReachMain, Example!Int32,
         ExampleProofs!Int32, Example!LOG_LEVEL_FATAL, ExampleProofs!LOG_LEVEL_FATAL,
         Example!LOG_LEVEL_VERBOSE, ExampleProofs!LOG_LEVEL_VERBOSE
<1> QED BY <1>3, <1>4, <1>5, <1>6

(* What is proved of the example alone is true of it in the program, where *)
(* options come before it, and where a call may fail to reach it: no call  *)
(* faults while there is memory; what one call allocates the next one      *)
(* frees; what it prints, and the results that main gets, are right.       *)
THEOREM CapMgrCallsAnswered ==
  Spec => []( /\ Example!FaultOnlyWithoutMemory /\ Example!HeapBalanced /\ Example!StringIntact
              /\ Example!PrintedAsAsked /\ Example!ResultsReachMain)
<1>1. CapMgrInv => /\ Example!FaultOnlyWithoutMemory /\ Example!HeapBalanced
                   /\ Example!StringIntact /\ Example!PrintedAsAsked
                   /\ Example!ResultsReachMain
  BY ExampleHolds DEF CapMgrInv
<1> QED BY <1>1, CapMgrAlways, PTL

(* Wherever code of the compartment runs, in a call or after a service,    *)
(* the libraries are patched, and it is the function of this call that     *)
(* runs.                                                                   *)
THEOREM CapMgrRunsConfined == Spec => []RunsConfined
<1>1. CapMgrInv /\ Libs!Confined => RunsConfined
  BY DEF CapMgrInv, InStep, InCall, RunsConfined, Libs!Confined, Libs!LibSymbols
<1> QED BY <1>1, CapMgrAlways, CapMgrConfined, PTL

(* main returns 0 only with all five calls answered, the heap as it was,   *)
(* and the symbols of the libraries the linker's again, but for an         *)
(* executive permission that they may have gained.                         *)
THEOREM CapMgrGoodEnd == Spec => []GoodEnd
<1>1. ASSUME CapMgrInv, Libs!RoundTrip, libs_pc = "exit", Returned = 0
      PROVE  /\ comp_pc = "exit" /\ call = 6 /\ results[4] = TRUE /\ ~exhausted
             /\ DOMAIN heap = {}
             /\ ~image.static => \A s \in Slot \ written :
                  Libs!Rebuildable(image.mem[s]) => Libs!Reverted(s)
  <2>1. at = "program" /\ ret = 0
    BY <1>1 DEF CapMgrInv, InStep, LevelInv, Options, Returned
  <2>2. comp_pc = "exit" /\ call_pc = "exit"
    BY <1>1, <2>1 DEF CapMgrInv, InStep
  <2>3. call = 6
    BY <1>1, <2>2 DEF CapMgrInv, ExampleInv, ExampleProofs!IInv, ExampleProofs!Control
  <2>4. results[4] = TRUE /\ ~exhausted /\ DOMAIN heap = {}
    <3>1. Example!HeapBalanced /\ Example!ResultsReachMain
      BY <1>1, ExampleHolds DEF CapMgrInv
    <3>2. DOMAIN heap = {}
      BY <2>2, <3>1 DEF Example!HeapBalanced
    <3>3. results[4] = TRUE /\ ~exhausted
      BY <2>2, <2>3, <3>1 DEF Example!ResultsReachMain, Example!print
    <3> QED BY <3>2, <3>3
  <2>5. ~image.static => \A s \in Slot \ written :
          Libs!Rebuildable(image.mem[s]) => Libs!Reverted(s)
    BY <1>1, <2>1 DEF Libs!RoundTrip
  <2> QED BY <2>2, <2>3, <2>4, <2>5
<1>2. CapMgrInv /\ Libs!RoundTrip => GoodEnd
  BY <1>1 DEF GoodEnd
<1> QED BY <1>2, CapMgrAlways, CapMgrRoundTrip, PTL
=============================================================================
