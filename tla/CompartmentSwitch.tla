-------------------------- MODULE CompartmentSwitch --------------------------
(***************************************************************************)
(* The compartment switch of the capability manager: how a call leaves     *)
(* main for the compartment, how the compartment calls back a capability   *)
(* manager service, and how both calls return.  The code is assembler      *)
(* (compartment_caller_asm.S) glued to C++ on either side of it, and what  *)
(* has to be right is the stack discipline: every register that a switch   *)
(* replaces comes back from the slot of the frame it was saved in.         *)
(*                                                                         *)
(* Memory is a function from slot addresses to words, one slot being one   *)
(* 16-byte capability.  Slots 1..ExecTop are the executive stack, the      *)
(* slots above it the compartment's (restricted) stack.  A capability to a *)
(* stack slot is its address, the null capability is 0, and a capability   *)
(* to code is one of the negative labels below.                            *)
(***************************************************************************)
EXTENDS Integers, Sequences

CONSTANTS
  ExecTop,        \* slots of the executive stack; main's frame is the top one
  RestSlots,      \* slots of the compartment's stack
  CallerFrame,    \* slots of CompartmentCaller()'s frame, as compiled
  CallerFp,       \* offset in it of the frame record (FP, then LR)
  CalleeSave,     \* offset in it of the saved callee-saved registers
  UnwrapFrame,    \* slots of CompartmentUnwrap() and the functions it calls
  UnwrapFp,       \* offset in it of the frame record
  HandlerFrame,   \* slots of CompartmentServiceHandler()'s frame
  HandlerFp,      \* offset in it of the frame record
  InitRestricted  \* what the restricted registers may hold at process start

CONSTANTS
  ApiFn,          \* functions of the compartment API that main has proxies for
  DllSymbols,     \* the functions that the loaded library exports
  Service,        \* capability manager services that compartment code calls
  ServiceTable,   \* the services in service_func_table
  Script,         \* Script[f]: the services that f calls, in order
  Arg,            \* argument values
  MaxCalls        \* bound: calls that main makes

SwitchFrame  == 5      \* (16 + COMPDATA_STRUCT_SIZE) bytes, in slots
CspSlot      == 0      \* COMPDATA_CSP_OFFSET
DdcSlot      == 1      \* COMPDATA_DDC_OFFSET
CtpidrSlot   == 2      \* COMPDATA_CTPIDR_OFFSET
ClrSlot      == 3      \* COMPDATA_CLR_OFFSET
RecordSlot   == 4      \* COMPDATA_STRUCT_SIZE: where the frame record goes

ASSUME FrameAssumption ==
  /\ {ExecTop, RestSlots, CallerFrame, UnwrapFrame, HandlerFrame} \subseteq Nat
  (* A frame record is two slots.  GCC keeps the callee-saved registers    *)
  (* above it, and the record itself may be the lowest of the frame.       *)
  /\ CallerFp \in 0 .. CallerFrame - 2
  /\ CalleeSave \in CallerFp + 2 .. CallerFrame - 1
  /\ UnwrapFp \in 0 .. UnwrapFrame - 2
  /\ HandlerFp \in 0 .. HandlerFrame - 2
  (* Neither stack overflows.                                              *)
  /\ ExecTop > CallerFrame + 2 * SwitchFrame + HandlerFrame
  /\ RestSlots >= UnwrapFrame + CallerFrame
  /\ InitRestricted \subseteq Int

ASSUME ApiAssumption ==
  /\ DllSymbols \subseteq ApiFn
  /\ ServiceTable \subseteq Service
  /\ "none" \notin ApiFn \cup Service
  /\ Script \in [ApiFn -> Seq(Service)]
  /\ MaxCalls \in Nat

------------------------------------------------------------------------------
(* Addresses and labels. *)

StackTop == ExecTop + RestSlots
Addr     == 1 .. StackTop
MainSp   == ExecTop            \* csp in main, and its frame record
CompTos  == StackTop + 1       \* m_comp_data.csp: top of the restricted stack

Null          == 0
InCapMgr      == -1            \* after the blr of the manager's CompartmentCaller
InCompartment == -2            \* after the blr of the compartment's copy of it
InCallFn      == -3            \* after CallCompartmentFunction's call of it
InCallback    == -4            \* after CompartmentServiceCallback's call of it
MainLive      == -5            \* what main keeps in callee-saved registers
FnLive        == -6            \* what the compartment function keeps in them
CompCtpidr    == -7            \* m_comp_data.ctpidr

(* Arguments, argument objects and results travel in c0 and c2.            *)
Fn      == ApiFn \cup Service
Payload == [kind : {"none", "comp_data", "comp_data_nulls", "object", "sealed", "value"},
            fn : Fn \cup {"none"}, arg : Arg \cup {"none"}]
Nothing == [kind |-> "none", fn |-> "none", arg |-> "none"]
Value(f, a) == [kind |-> "value", fn |-> f, arg |-> a]

(* An argument object (CCompartmentData, CCapMgrServiceData) while it lives *)
Object   == [fn : Fn, arg : Arg]
NoObject == [fn |-> "none", arg |-> "none"]

(* CompartmentData_t as c0 points to it. *)
CompartmentData(kind) ==
  IF kind = "comp_data"
  THEN [csp |-> CompTos, ddc |-> Null, ctpidr |-> CompCtpidr]
  ELSE [csp |-> Null, ddc |-> Null, ctpidr |-> Null]

VARIABLES
  pc,             \* the code that runs next
  mode,           \* PSTATE of the processor: executive or restricted
  csp,            \* csp_el0, the executive stack pointer
  rcsp,           \* rcsp_el0, the stack pointer of restricted state
  rddc,           \* rddc_el0
  rctpidr,        \* rctpidr_el0
  c29,            \* frame pointer
  c30,            \* link register, clr
  x19,            \* stands for x19..x28
  c0, c1, c2,     \* argument and result registers
  mem,            \* the two stacks
  data,           \* the CCompartmentData object of the call in progress
  serviceData,    \* the CCapMgrServiceData object of the callback in progress
  proxy,          \* g_service_call_proxy: the call whose data it refers to, or 0
  proxyObjects,   \* CServiceCallProxy objects in existence
  todo,           \* the services that the running compartment function still calls
  memBuff,        \* what the compartment function got from its last service
  result,         \* what main got from its last call
  calls,          \* number of calls main has made
  before          \* history: restricted registers at main's call, and its callbacks

machine == <<csp, rcsp, rddc, rctpidr, c29, c30, x19, c0, c1, c2, mem>>
program == <<data, serviceData, proxy, proxyObjects, todo, memBuff, result, calls, before>>
vars    == <<pc, mode, machine, program>>

Restricted == [rcsp |-> rcsp, rddc |-> rddc, rctpidr |-> rctpidr]

Init ==
  /\ pc = "main"
  /\ mode = "executive"
  /\ csp = MainSp /\ c29 = MainSp /\ c30 = Null /\ x19 = MainLive
  /\ rcsp \in InitRestricted /\ rddc \in InitRestricted /\ rctpidr \in InitRestricted
  /\ c0 = Nothing /\ c1 = "none" /\ c2 = Nothing
  /\ mem = [a \in Addr |-> Null]
  /\ data = NoObject /\ serviceData = NoObject
  /\ proxy = 0 /\ proxyObjects = 0
  /\ todo = <<>>
  /\ memBuff = Nothing /\ result = Nothing
  /\ calls = 0
  /\ before = [reg |-> Restricted, callbacks |-> 0]

------------------------------------------------------------------------------
(* The capability manager: main calls a function through the API proxy.    *)

(* CallApiFn and CallCompartmentFunction up to the call of CompartmentCaller. *)
(* "main" is the code from main down to here: the prologues on the way down *)
(* set the frame pointer.                                                  *)
CallCompartmentFunction(f, a) ==
  /\ pc = "main"
  /\ calls < MaxCalls
  /\ f \in DllSymbols
  /\ data' = [fn |-> f, arg |-> a]
  /\ c0' = [Nothing EXCEPT !.kind = "comp_data"]
  /\ c1' = "CompartmentUnwrap"
  /\ c2' = [kind |-> "sealed", fn |-> f, arg |-> a]
  /\ c29' = MainSp /\ c30' = InCallFn
  /\ calls' = calls + 1
  /\ before' = [reg |-> Restricted, callbacks |-> 0]
  /\ pc' = "CompartmentCaller"
  /\ UNCHANGED <<mode, csp, rcsp, rddc, rctpidr, x19, mem,
                 serviceData, proxy, proxyObjects, todo, memBuff, result>>

(* GetDllSymbolByName fails: CCompartmentException, which main catches not *)
CallUnknownFunction(f) ==
  /\ pc = "main"
  /\ calls < MaxCalls
  /\ f \in ApiFn \ DllSymbols
  /\ pc' = "terminated"
  /\ UNCHANGED <<mode, machine, program>>

MainExit ==
  /\ pc = "main"
  /\ pc' = "exit"
  /\ UNCHANGED <<mode, machine, program>>

------------------------------------------------------------------------------
(* CompartmentCaller(), which both sides have a copy of.                   *)

StackPointer == IF mode = "executive" THEN csp ELSE rcsp

(* The clobber list makes the compiler save FP, LR and the callee-saved    *)
(* registers, and reload them.  Mutant: the compartment's copy is built    *)
(* without the list.                                                       *)
CallerSavesNoClobbers(sp) ==
  [mem EXCEPT ![sp + CallerFp] = c29, ![sp + CallerFp + 1] = c30,
              ![sp + CalleeSave] = IF mode = "executive" THEN x19 ELSE @]
CallerSaves(sp) ==
  [mem EXCEPT ![sp + CallerFp] = c29, ![sp + CallerFp + 1] = c30,
              ![sp + CalleeSave] = x19]

(* Mutant: only the frame record is reloaded.                              *)
CallerReloadsRecord(sp) ==
  c29' = mem[sp + CallerFp] /\ c30' = mem[sp + CallerFp + 1] /\ UNCHANGED x19
CallerReloads(sp) ==
  c29' = mem[sp + CallerFp] /\ c30' = mem[sp + CallerFp + 1] /\ x19' = mem[sp + CalleeSave]

(* Prologue, register setup and blr to CompartmentSwitchEntry, which is    *)
(* executive code, so blr enters that state.                               *)
CompartmentCaller ==
  /\ pc = "CompartmentCaller"
  /\ LET sp == StackPointer - CallerFrame
     IN  /\ mem' = CallerSaves(sp)
         /\ c29' = sp + CallerFp
         /\ IF mode = "executive"
            THEN csp' = sp /\ UNCHANGED rcsp
            ELSE rcsp' = sp /\ UNCHANGED csp
  /\ c30' = (IF mode = "executive" THEN InCapMgr ELSE InCompartment)
  /\ mode' = "executive"
  /\ pc' = "CompartmentSwitchEntry"
  /\ UNCHANGED <<rddc, rctpidr, x19, c0, c1, c2, program>>

(* After the blr: the epilogue reloads what the prologue saved and returns *)
(* to clr; the caller takes the result and drops its argument object.      *)
CallerReturn ==
  /\ pc = "CallerReturn"
  /\ LET sp == StackPointer
     IN  /\ CallerReloads(sp)
         /\ IF mode = "executive"
            THEN csp' = sp + CallerFrame /\ UNCHANGED rcsp
            ELSE rcsp' = sp + CallerFrame /\ UNCHANGED csp
  /\ IF mode = "executive"
     THEN /\ result' = c0
          /\ data' = NoObject
          /\ pc' = (IF c30' = InCallFn THEN "main" ELSE "fault")
          /\ UNCHANGED <<memBuff, serviceData>>
     ELSE /\ memBuff' = c0
          /\ serviceData' = NoObject
          /\ pc' = (IF c30' = InCallback THEN "Function" ELSE "fault")
          /\ UNCHANGED <<result, data>>
  /\ UNCHANGED <<mode, rddc, rctpidr, c0, c1, c2, mem, proxy, proxyObjects, todo, calls, before>>

------------------------------------------------------------------------------
(* compartment_caller_asm.S                                                *)

(* The frame is SwitchFrame slots, and stp of two capabilities at its last *)
(* slot writes one slot beyond it: c30 lands in the caller's lowest slot,  *)
(* which in the manager's CompartmentCaller() may hold the saved c29.      *)
(* Mutant: clr is only saved in the frame record.                          *)
SwitchSavesNoClr(sp) ==
  [mem EXCEPT ![sp + RecordSlot] = c29, ![sp + RecordSlot + 1] = c30,
              ![sp + CspSlot] = rcsp, ![sp + DdcSlot] = rddc,
              ![sp + CtpidrSlot] = rctpidr]
(* Mutant: the compartment's registers are in place by then.               *)
SwitchSavesLate(sp) ==
  LET comp == CompartmentData(c0.kind)
  IN  [mem EXCEPT ![sp + RecordSlot] = c29, ![sp + RecordSlot + 1] = c30,
                  ![sp + CspSlot] = comp.csp, ![sp + DdcSlot] = comp.ddc,
                  ![sp + CtpidrSlot] = comp.ctpidr, ![sp + ClrSlot] = c30]
SwitchSaves(sp) ==
  [mem EXCEPT ![sp + RecordSlot] = c29, ![sp + RecordSlot + 1] = c30,
              ![sp + CspSlot] = rcsp, ![sp + DdcSlot] = rddc,
              ![sp + CtpidrSlot] = rctpidr, ![sp + ClrSlot] = c30]

(* brr enters the state that its target has the permission for.            *)
(* Mutant: br, which stays in executive state.                             *)
StateEnteredByBr(target) == "executive"
StateEntered(target) ==
  IF target = "CompartmentUnwrap" THEN "restricted" ELSE "executive"

CompartmentSwitchEntry ==
  /\ pc = "CompartmentSwitchEntry"
  /\ LET sp   == csp - SwitchFrame
         comp == CompartmentData(c0.kind)
     IN  /\ csp' = sp
         /\ mem' = SwitchSaves(sp)
         /\ c29' = sp + RecordSlot
         /\ rcsp' = comp.csp /\ rddc' = comp.ddc /\ rctpidr' = comp.ctpidr
  /\ c2.kind = "sealed"                         \* unseal faults otherwise
  /\ c0' = [c2 EXCEPT !.kind = "object"]
  /\ c30' = Null /\ x19' = Null
  /\ mode' = StateEntered(c1)
  /\ pc' = c1
  /\ UNCHANGED <<c1, c2, program>>

(* Mutant: clr is loaded from the slot before its own.                     *)
SwitchRestoresWrongClr ==
  /\ rcsp' = mem[csp + CspSlot] /\ rddc' = mem[csp + DdcSlot]
  /\ rctpidr' = mem[csp + CtpidrSlot] /\ c30' = mem[csp + CtpidrSlot]
  /\ c29' = mem[csp + RecordSlot]
SwitchRestores ==
  /\ rcsp' = mem[csp + CspSlot] /\ rddc' = mem[csp + DdcSlot]
  /\ rctpidr' = mem[csp + CtpidrSlot] /\ c30' = mem[csp + ClrSlot]
  /\ c29' = mem[csp + RecordSlot]

(* Mutant: the result register is cleared like the others.                 *)
SwitchClearsResult == x19' = Null /\ c0' = Nothing /\ c1' = "none" /\ c2' = Nothing
SwitchClears       == x19' = Null /\ UNCHANGED c0 /\ c1' = "none" /\ c2' = Nothing

CompartmentSwitchReturn ==
  /\ pc = "CompartmentSwitchReturn"
  /\ SwitchRestores
  /\ csp' = csp + SwitchFrame
  /\ SwitchClears
  /\ mode' = (IF c30' = InCompartment THEN "restricted" ELSE "executive")
  /\ pc' = (IF c30' \in {InCapMgr, InCompartment} THEN "CallerReturn" ELSE "fault")
  /\ UNCHANGED <<mem, program>>

(* Drops CompartmentServiceHandler()'s frame by following its frame record *)
CompartmentServiceCallbackSwitchReturn ==
  /\ pc = "CompartmentServiceCallbackSwitchReturn"
  /\ c29' = mem[c29]
  /\ csp' = c29' - RecordSlot
  /\ pc' = "CompartmentSwitchReturn"
  /\ UNCHANGED <<mode, rcsp, rddc, rctpidr, c30, x19, c0, c1, c2, mem, program>>

------------------------------------------------------------------------------
(* The compartment, in restricted state.                                   *)

(* The trampoline branches here: the proxy of this call replaces the last  *)
CompartmentUnwrap ==
  /\ pc = "CompartmentUnwrap"
  /\ LET sp == rcsp - UnwrapFrame
     IN  /\ mem' = [mem EXCEPT ![sp + UnwrapFp] = c29, ![sp + UnwrapFp + 1] = c30]
         /\ rcsp' = sp
         /\ c29' = sp + UnwrapFp
  /\ proxyObjects' = proxyObjects + 1 - (IF proxy = 0 THEN 0 ELSE 1)
  /\ proxy' = calls
  /\ pc' = "CallFunction"
  /\ UNCHANGED <<mode, csp, rddc, rctpidr, c30, x19, c0, c1, c2,
                 data, serviceData, todo, memBuff, result, calls, before>>

(* CallFunction casts the object by its type and calls the function.       *)
CallFunction ==
  /\ pc = "CallFunction"
  /\ todo' = Script[c0.fn]
  /\ x19' = FnLive
  /\ pc' = "Function"
  /\ UNCHANGED <<mode, csp, rcsp, rddc, rctpidr, c29, c30, c0, c1, c2, mem,
                 data, serviceData, proxy, proxyObjects, memBuff, result, calls, before>>

(* CServiceCallProxy::CompartmentServiceCallback, up to CompartmentCaller. *)
(* The proxy supplies the table, the sealer and the entry and handler.     *)
CompartmentServiceCallback ==
  /\ pc = "Function"
  /\ todo # <<>>
  /\ proxy = calls
  /\ LET service == Head(todo)
     IN  /\ service \in ServiceTable
         /\ serviceData' = [fn |-> service, arg |-> data.arg]
         /\ c2' = [kind |-> "sealed", fn |-> service, arg |-> data.arg]
  /\ c0' = [Nothing EXCEPT !.kind = "comp_data_nulls"]
  /\ c1' = "CompartmentServiceHandler"
  /\ c30' = InCallback
  /\ todo' = Tail(todo)
  /\ before' = [before EXCEPT !.callbacks = @ + 1]
  /\ pc' = "CompartmentCaller"
  /\ UNCHANGED <<mode, csp, rcsp, rddc, rctpidr, c29, x19, mem,
                 data, proxy, proxyObjects, memBuff, result, calls>>

(* Mutant: the call of a service that is not in the table is tried again.  *)
UnknownServiceRetried ==
  /\ pc = "Function"
  /\ todo # <<>>
  /\ Head(todo) \notin ServiceTable
  /\ UNCHANGED vars

(* CCapMgrServiceException: nothing in the compartment catches it.         *)
UnknownService ==
  /\ pc = "Function"
  /\ todo # <<>>
  /\ Head(todo) \notin ServiceTable
  /\ pc' = "terminated"
  /\ UNCHANGED <<mode, machine, program>>

(* release() hands over ownership of the proxy, to nobody.                 *)
(* Mutant: CompartmentUnwrap does not let go of it.                        *)
CleanupKeepsProxy == UNCHANGED <<proxy, proxyObjects>>
Cleanup           == proxy' = 0 /\ UNCHANGED proxyObjects

(* The function returns to CompartmentUnwrap, which leaves through         *)
(* CompartmentReturn: blr to the executive exit function.                  *)
CompartmentReturn ==
  /\ pc = "Function"
  /\ todo = <<>>
  /\ c0' = Value(data.fn, IF Script[data.fn] = <<>> THEN data.arg ELSE memBuff.arg)
  /\ Cleanup
  /\ mode' = "executive"
  /\ pc' = "CompartmentSwitchReturn"
  /\ UNCHANGED <<csp, rcsp, rddc, rctpidr, c29, c30, x19, c1, c2, mem,
                 data, serviceData, todo, memBuff, result, calls, before>>

------------------------------------------------------------------------------
(* The capability manager's service handler, in executive state.           *)

CompartmentServiceHandler ==
  /\ pc = "CompartmentServiceHandler"
  /\ LET sp == csp - HandlerFrame
     IN  /\ mem' = [mem EXCEPT ![sp + HandlerFp] = c29, ![sp + HandlerFp + 1] = c30]
         /\ csp' = sp
         /\ c29' = sp + HandlerFp
  /\ c0' = Value(c0.fn, c0.arg)                 \* CallServiceFunction
  /\ pc' = "CompartmentServiceCallbackSwitchReturn"
  /\ UNCHANGED <<mode, rcsp, rddc, rctpidr, c30, x19, c1, c2, program>>

------------------------------------------------------------------------------

Ended == pc \in {"exit", "terminated"} /\ UNCHANGED vars

Step ==
  \/ \E f \in ApiFn : CallUnknownFunction(f) \/ \E a \in Arg : CallCompartmentFunction(f, a)
  \/ MainExit
  \/ CompartmentCaller
  \/ CallerReturn
  \/ CompartmentSwitchEntry
  \/ CompartmentSwitchReturn
  \/ CompartmentServiceCallbackSwitchReturn
  \/ CompartmentUnwrap
  \/ CallFunction
  \/ CompartmentServiceCallback
  \/ UnknownService
  \/ CompartmentReturn
  \/ CompartmentServiceHandler

Next == Step \/ Ended

Spec == Init /\ [][Next]_vars

(* One thread executes all of this: while a step remains it is taken.      *)
FairSpec == Spec /\ WF_vars(Step)
------------------------------------------------------------------------------
(* Properties. *)

Code == {"main", "CompartmentCaller", "CompartmentSwitchEntry", "CompartmentUnwrap",
         "CallFunction", "Function", "CompartmentServiceHandler",
         "CompartmentServiceCallbackSwitchReturn", "CompartmentSwitchReturn",
         "CallerReturn", "exit", "terminated"}
Target == {"none", "CompartmentUnwrap", "CompartmentServiceHandler"}
RestrictedRegisters == [rcsp : Int, rddc : Int, rctpidr : Int]

(* Types.  In particular control never reaches the label "fault", which is *)
(* where a return through a CLR slot, or a link register saved by          *)
(* CompartmentCaller, that does not hold its return address leads.         *)
TypeOK ==
  /\ pc \in Code
  /\ mode \in {"executive", "restricted"}
  /\ csp \in 1 .. ExecTop
  /\ rcsp \in Int /\ rddc \in Int /\ rctpidr \in Int
  /\ c29 \in Int /\ c30 \in Int /\ x19 \in Int
  /\ c0 \in Payload /\ c1 \in Target /\ c2 \in Payload
  /\ mem \in [Addr -> Int]
  /\ data \in Object \cup {NoObject}
  /\ serviceData \in Object \cup {NoObject}
  /\ proxy \in 0 .. MaxCalls /\ proxyObjects \in Nat
  /\ todo \in Seq(Service)
  /\ memBuff \in Payload /\ result \in Payload
  /\ calls \in 0 .. MaxCalls
  /\ before \in [reg : RestrictedRegisters, callbacks : Nat]

(* Where the frames of the calls in progress lie.                          *)
CallerSp     == MainSp - CallerFrame              \* the manager's CompartmentCaller
Base(i)      == CallerSp - i * SwitchFrame        \* i-th frame of CompartmentSwitchEntry
HandlerSp    == Base(2) - HandlerFrame
UnwrapSp     == CompTos - UnwrapFrame
CompCallerSp == UnwrapSp - CallerFrame            \* the compartment's CompartmentCaller

(* However many services the compartment called, when a call has returned  *)
(* its caller finds the executive stack pointer and what it kept in the    *)
(* callee-saved registers as they were (comp_caller.c:12-20: the compiler  *)
(* preserves x19..x28, on the switcher's behalf).                          *)
CallerStateRestored == pc = "main" => csp = MainSp /\ x19 = MainLive

(* comp_caller.c:20, "FP is not actually clobbered, because                *)
(* CompartmentEntry() does preserve FP": the caller gets it back as well.  *)
FramePointerPreserved == pc = "main" => c29 = MainSp

(* A compartment function that has called a service goes on with its own   *)
(* restricted stack pointer, thread pointer, DDC, frame pointer and        *)
(* callee-saved registers, although the service ran with none of them, and *)
(* the executive stack is back at the frame of the compartment's call.     *)
ServiceCallTransparent ==
  pc = "Function" =>
    /\ rcsp = UnwrapSp /\ rddc = Null /\ rctpidr = CompCtpidr
    /\ c29 = UnwrapSp + UnwrapFp /\ x19 = FnLive
    /\ csp = Base(1)

(* Code of the compartment runs in restricted state only, on the           *)
(* compartment's stack; code of the manager in executive state only.  brr  *)
(* and retr choose the state from the capability they branch to, so this   *)
(* is about which return address and target each frame holds.              *)
CompartmentCode == {"CompartmentUnwrap", "CallFunction", "Function"}
ManagerCode == {"main", "CompartmentServiceHandler", "CompartmentSwitchEntry",
                "CompartmentServiceCallbackSwitchReturn", "CompartmentSwitchReturn"}
StateMatchesCode ==
  /\ pc \in CompartmentCode => mode = "restricted" /\ rcsp \in CompCallerSp .. CompTos
  /\ pc \in ManagerCode => mode = "executive"
  /\ pc = "CallerReturn" => (mode = "executive" <=> csp = CallerSp)

(* The return address and frame pointer that an open switch frame holds    *)
(* are those of its caller for as long as the frame is open, whatever is   *)
(* pushed below it (the inner switch frame and the handler's frame).       *)
Depth == IF csp > Base(1) THEN 0 ELSE IF csp > Base(2) THEN 1 ELSE 2
OpenFramesIntact ==
  /\ Depth >= 1 => /\ mem[Base(1) + ClrSlot] = InCapMgr
                   /\ mem[Base(1) + RecordSlot] = CallerSp + CallerFp
  /\ Depth = 2 => /\ mem[Base(2) + ClrSlot] = InCompartment
                  /\ mem[Base(2) + RecordSlot] = CompCallerSp + CallerFp

(* What CompartmentSwitchReturn restores to main of the restricted state:  *)
(* always RDDC and RCTPIDR, and RCSP if the call made no service callback. *)
RestrictedStateRestoredExceptRcsp ==
  pc = "main" => /\ rddc = before.reg.rddc /\ rctpidr = before.reg.rctpidr
                 /\ before.callbacks = 0 => rcsp = before.reg.rcsp

(* compartment_caller_asm.S:115-116, "Restore the restricted state         *)
(* environment and return to the caller", of all three registers.          *)
RestrictedStateRestored == pc = "main" => Restricted = before.reg

(* g_service_call_proxy refers to the data object of the call in progress  *)
(* while the compartment runs, and to nothing once main has returned from  *)
(* it and the object is gone.                                              *)
ProxyIsCurrent ==
  /\ proxy # 0 => proxy = calls /\ data # NoObject
  /\ pc \in {"CallFunction", "Function"} => proxy = calls

(* comp_entry.cpp:119, "Cleanup, proxy no longer needed": no proxy object  *)
(* outlives the call that it was made for.                                 *)
ProxyFreed == pc = "main" => proxyObjects = 0

(* The framework as its callers see it: calls nest, and each return hands  *)
(* the caller the reply to the call it made last (CallProtocol).           *)
Labels == [i \in 1 .. Depth |-> mem[Base(i) + ClrSlot]]
          \o (IF pc = "CallerReturn" THEN <<c30>> ELSE <<>>)
OpenCalls ==
  [i \in 1 .. Len(Labels) |->
     IF Labels[i] = InCapMgr THEN [site |-> "capmgr", req |-> data]
                             ELSE [site |-> "compartment", req |-> serviceData]]
ReplyTo(r) == Value(r.fn, r.arg)
Protocol == INSTANCE CallProtocol WITH
  Request    <- [capmgr      |-> [fn : ApiFn, arg : Arg],
                 compartment |-> [fn : Service, arg : Arg]],
  Reply      <- ReplyTo,
  NoReply    <- Nothing,
  MaxNesting <- 2,
  open       <- OpenCalls,
  reply      <- [capmgr |-> result, compartment |-> memBuff],
  stopped    <- pc \in {"exit", "terminated"}
ImplementsProtocol == Protocol!Spec

(* Every call that main makes returns to main, or ends the program with    *)
(* the exception of a service that the manager does not have.              *)
CallsReturn == (pc = "CompartmentSwitchEntry") ~> (pc \in {"main", "terminated"})
=============================================================================
