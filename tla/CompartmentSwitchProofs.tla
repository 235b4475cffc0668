----------------------- MODULE CompartmentSwitchProofs -----------------------
(***************************************************************************)
(* Proofs about CompartmentSwitch, for stacks and frames of every size, any *)
(* API, any set of services and any number of calls.  The invariant says,  *)
(* for each place control can be at, where every stack pointer stands and  *)
(* what the frames below main hold.                                        *)
(***************************************************************************)
EXTENDS CompartmentSwitch, TLAPS

USE DEF CallerSaves, CallerReloads, SwitchSaves, SwitchRestores, SwitchClears,
        StateEntered, Cleanup

------------------------------------------------------------------------------
(* What the frames hold while they are open.                               *)

(* The saved frame pointer, in the slot below the return address, may be   *)
(* overwritten: nothing is said of it.                                     *)
ManagerCallerFrame ==
  /\ mem[CallerSp + CallerFp + 1] = InCallFn
  /\ mem[CallerSp + CalleeSave] = MainLive

OuterSwitchFrame ==
  /\ mem[Base(1) + DdcSlot] = before.reg.rddc
  /\ mem[Base(1) + CtpidrSlot] = before.reg.rctpidr
  /\ before.callbacks = 0 => mem[Base(1) + CspSlot] = before.reg.rcsp
  /\ mem[Base(1) + ClrSlot] = InCapMgr
  /\ mem[Base(1) + RecordSlot] = CallerSp + CallerFp

CompartmentCallerFrame ==
  /\ mem[CompCallerSp + CallerFp] = UnwrapSp + UnwrapFp
  /\ mem[CompCallerSp + CallerFp + 1] = InCallback
  /\ mem[CompCallerSp + CalleeSave] = FnLive

InnerSwitchFrame ==
  /\ mem[Base(2) + CspSlot] = CompCallerSp
  /\ mem[Base(2) + DdcSlot] = Null
  /\ mem[Base(2) + CtpidrSlot] = CompCtpidr
  /\ mem[Base(2) + ClrSlot] = InCompartment
  /\ mem[Base(2) + RecordSlot] = CompCallerSp + CallerFp

(* The registers of the compartment that its calls must preserve.          *)
CompartmentRegisters(sp) == rcsp = sp /\ rddc = Null /\ rctpidr = CompCtpidr

(* Registers restored to what they were when main called, except RCSP once *)
(* a service callback has run.                                             *)
CallRegisters ==
  /\ rddc = before.reg.rddc /\ rctpidr = before.reg.rctpidr
  /\ before.callbacks = 0 => rcsp = before.reg.rcsp

ApiCall ==
  /\ data # NoObject
  /\ data.fn \in ApiFn

------------------------------------------------------------------------------
(* One predicate for each place that control can be at.                    *)

InMain ==
  /\ pc \in {"main", "exit"} /\ mode = "executive"
  /\ csp = MainSp /\ x19 = MainLive
  /\ CallRegisters /\ proxy = 0

Stopped ==
  /\ pc = "terminated"
  /\ csp = MainSp \/ (csp = Base(1) /\ OuterSwitchFrame)

CallingCompartment ==
  /\ pc = "CompartmentCaller" /\ mode = "executive"
  /\ csp = MainSp /\ c30 = InCallFn /\ x19 = MainLive
  /\ CallRegisters /\ before.callbacks = 0 /\ proxy = 0 /\ ApiCall
  /\ c0.kind = "comp_data" /\ c1 = "CompartmentUnwrap" /\ c2.fn \in ApiFn

EnteringCompartment ==
  /\ pc = "CompartmentSwitchEntry" /\ mode = "executive" /\ c30 = InCapMgr
  /\ csp = CallerSp /\ c29 = CallerSp + CallerFp /\ ManagerCallerFrame
  /\ CallRegisters /\ before.callbacks = 0 /\ proxy = 0 /\ ApiCall
  /\ c0.kind = "comp_data" /\ c1 = "CompartmentUnwrap" /\ c2.fn \in ApiFn

InUnwrap ==
  /\ pc = "CompartmentUnwrap" /\ mode = "restricted"
  /\ csp = Base(1) /\ CompartmentRegisters(CompTos) /\ proxy = 0 /\ ApiCall
  /\ ManagerCallerFrame /\ OuterSwitchFrame
  /\ c0.fn \in ApiFn

InCallFunction ==
  /\ pc = "CallFunction" /\ mode = "restricted"
  /\ csp = Base(1) /\ CompartmentRegisters(UnwrapSp) /\ proxy = calls /\ ApiCall
  /\ c29 = UnwrapSp + UnwrapFp
  /\ ManagerCallerFrame /\ OuterSwitchFrame
  /\ c0.fn \in ApiFn

InFunction ==
  /\ pc = "Function" /\ mode = "restricted"
  /\ csp = Base(1) /\ CompartmentRegisters(UnwrapSp) /\ proxy = calls /\ ApiCall
  /\ c29 = UnwrapSp + UnwrapFp /\ x19 = FnLive
  /\ ManagerCallerFrame /\ OuterSwitchFrame

CallingService ==
  /\ pc = "CompartmentCaller" /\ mode = "restricted"
  /\ csp = Base(1) /\ CompartmentRegisters(UnwrapSp) /\ proxy = calls /\ ApiCall
  /\ c29 = UnwrapSp + UnwrapFp /\ c30 = InCallback /\ x19 = FnLive
  /\ ManagerCallerFrame /\ OuterSwitchFrame /\ before.callbacks > 0
  /\ c0.kind = "comp_data_nulls" /\ c1 = "CompartmentServiceHandler" /\ c2.fn \in Service

EnteringService ==
  /\ pc = "CompartmentSwitchEntry" /\ mode = "executive" /\ c30 = InCompartment
  /\ csp = Base(1) /\ CompartmentRegisters(CompCallerSp) /\ proxy = calls /\ ApiCall
  /\ c29 = CompCallerSp + CallerFp
  /\ ManagerCallerFrame /\ OuterSwitchFrame /\ CompartmentCallerFrame /\ before.callbacks > 0
  /\ c0.kind = "comp_data_nulls" /\ c1 = "CompartmentServiceHandler" /\ c2.fn \in Service

ServiceFrames ==
  /\ ManagerCallerFrame /\ OuterSwitchFrame /\ before.callbacks > 0
  /\ CompartmentCallerFrame /\ InnerSwitchFrame
  /\ proxy = calls /\ ApiCall

InHandler ==
  /\ pc = "CompartmentServiceHandler" /\ mode = "executive"
  /\ csp = Base(2) /\ c29 = Base(2) + RecordSlot
  /\ ServiceFrames
  /\ c0.fn \in Service

LeavingHandler ==
  /\ pc = "CompartmentServiceCallbackSwitchReturn" /\ mode = "executive"
  /\ csp = HandlerSp /\ c29 = HandlerSp + HandlerFp
  /\ mem[HandlerSp + HandlerFp] = Base(2) + RecordSlot
  /\ ServiceFrames

ReturningToCompartment ==
  /\ pc = "CompartmentSwitchReturn" /\ mode = "executive"
  /\ csp = Base(2)
  /\ ServiceFrames

ReturnedToCompartment ==
  /\ pc = "CallerReturn" /\ mode = "restricted"
  /\ csp = Base(1) /\ CompartmentRegisters(CompCallerSp) /\ proxy = calls /\ ApiCall
  /\ c29 = CompCallerSp + CallerFp /\ c30 = InCompartment
  /\ ManagerCallerFrame /\ OuterSwitchFrame /\ CompartmentCallerFrame

ReturningToManager ==
  /\ pc = "CompartmentSwitchReturn" /\ mode = "executive"
  /\ csp = Base(1) /\ proxy = 0 /\ ApiCall
  /\ ManagerCallerFrame /\ OuterSwitchFrame

ReturnedToManager ==
  /\ pc = "CallerReturn" /\ mode = "executive"
  /\ csp = CallerSp /\ c29 = CallerSp + CallerFp /\ c30 = InCapMgr
  /\ proxy = 0 /\ CallRegisters
  /\ ManagerCallerFrame

Place ==
  \/ InMain \/ Stopped
  \/ CallingCompartment \/ EnteringCompartment
  \/ InUnwrap \/ InCallFunction \/ InFunction
  \/ CallingService \/ EnteringService
  \/ InHandler \/ LeavingHandler
  \/ ReturningToCompartment \/ ReturnedToCompartment
  \/ ReturningToManager \/ ReturnedToManager

Inv == TypeOK /\ ProxyIsCurrent /\ Place

------------------------------------------------------------------------------
(* The frames of a call are disjoint and lie on their stacks, whatever     *)
(* their sizes: from the assumptions about the constants.                  *)
LEMMA Layout ==
  /\ ExecTop \in Nat /\ StackTop \in Nat /\ ExecTop <= StackTop
  /\ HandlerSp \in 1 .. ExecTop
  /\ Base(2) = HandlerSp + HandlerFrame
  /\ Base(1) = Base(2) + SwitchFrame
  /\ CallerSp = Base(1) + SwitchFrame
  /\ MainSp = CallerSp + CallerFrame /\ MainSp = ExecTop
  /\ CompCallerSp \in Int /\ CompCallerSp > ExecTop
  /\ UnwrapSp = CompCallerSp + CallerFrame
  /\ CompTos = UnwrapSp + UnwrapFrame /\ CompTos = StackTop + 1
  /\ CallerFp \in Nat /\ CallerFp + 1 < CallerFrame /\ CallerFrame \in Nat
  /\ CalleeSave \in Nat /\ CalleeSave > CallerFp + 1 /\ CalleeSave < CallerFrame
  /\ UnwrapFp \in Nat /\ UnwrapFp + 1 < UnwrapFrame /\ UnwrapFrame \in Nat
  /\ HandlerFp \in Nat /\ HandlerFp + 1 < HandlerFrame /\ HandlerFrame \in Nat
  /\ SwitchFrame = 5
BY FrameAssumption DEF FrameAssumption, StackTop, HandlerSp, Base, CallerSp, MainSp,
     CompCallerSp, UnwrapSp, CompTos, SwitchFrame

(* Control starts in main, with nothing on the stacks.                     *)
LEMMA InitEstablishesInv == Init => Inv
<1> SUFFICES ASSUME Init PROVE Inv
  OBVIOUS
<1>1. TypeOK
  <2>1. mem \in [Addr -> Int] /\ csp \in 1 .. ExecTop /\ c29 \in Addr
    BY Layout DEF Init, MainSp, Addr, Null
  <2>2. rcsp \in Int /\ rddc \in Int /\ rctpidr \in Int /\ c30 \in Int /\ x19 \in Int
    BY FrameAssumption DEF FrameAssumption, Init, Null, MainLive
  <2>3. before \in [reg : RestrictedRegisters, callbacks : Nat]
    BY <2>2 DEF Init, Restricted, RestrictedRegisters
  <2>4. Nothing \in Payload
    BY DEF Nothing, Payload
  <2> QED
    BY <2>1, <2>2, <2>3, <2>4, ApiAssumption
    DEF ApiAssumption, TypeOK, Init, Code, Target
<1>2. ProxyIsCurrent
  BY DEF Init, ProxyIsCurrent
<1>3. InMain
  BY <1>1 DEF Init, InMain, CallRegisters, Restricted, TypeOK
<1> QED
  BY <1>1, <1>2, <1>3 DEF Inv, Place

(* Where control is decides which of the places it is.                     *)
LEMMA PlaceOfControl ==
  ASSUME TypeOK, Place
  PROVE  /\ pc = "main" => InMain
         /\ pc = "CompartmentCaller" /\ mode = "executive" => CallingCompartment
         /\ pc = "CompartmentCaller" /\ mode # "executive" => CallingService
         /\ pc = "CompartmentSwitchEntry" => EnteringCompartment \/ EnteringService
         /\ pc = "CompartmentUnwrap" => InUnwrap
         /\ pc = "CallFunction" => InCallFunction
         /\ pc = "Function" => InFunction
         /\ pc = "CompartmentServiceHandler" => InHandler
         /\ pc = "CompartmentServiceCallbackSwitchReturn" => LeavingHandler
         /\ pc = "CompartmentSwitchReturn" => ReturningToCompartment \/ ReturningToManager
         /\ pc = "CallerReturn" /\ mode = "executive" => ReturnedToManager
         /\ pc = "CallerReturn" /\ mode # "executive" => ReturnedToCompartment
         /\ pc = "exit" => InMain
         /\ pc = "terminated" => Stopped
BY DEF Place, InMain, Stopped, CallingCompartment, EnteringCompartment, InUnwrap,
     InCallFunction, InFunction, CallingService, EnteringService, InHandler, LeavingHandler,
     ReturningToCompartment, ReturnedToCompartment, ReturningToManager, ReturnedToManager

(* Every operation keeps the invariant: one lemma for each.                *)
LEMMA CallCompartmentFunctionKeepsInv ==
  ASSUME Inv, NEW f \in ApiFn, NEW a \in Arg, CallCompartmentFunction(f, a)
  PROVE  Inv'
<1>1. InMain /\ TypeOK
  BY PlaceOfControl DEF Inv, CallCompartmentFunction
<1>2. data' = [fn |-> f, arg |-> a] /\ data' # NoObject /\ data' \in Object
  BY ApiAssumption DEF CallCompartmentFunction, ApiAssumption, NoObject, Object, Fn
<1>3. /\ before' \in [reg : RestrictedRegisters, callbacks : Nat]
      /\ CallRegisters' /\ before'.callbacks = 0
  BY <1>1 DEF CallCompartmentFunction, Restricted, RestrictedRegisters, TypeOK, CallRegisters
<1>4. c0' \in Payload /\ c2' \in Payload /\ c0'.kind = "comp_data" /\ c2'.fn \in ApiFn
  BY DEF CallCompartmentFunction, Payload, Nothing, Fn
<1>5. TypeOK'
  <2>1. c29' \in Int /\ c30' \in Int
    BY Layout DEF CallCompartmentFunction, MainSp, InCallFn
  <2> QED
    BY <1>1, <1>2, <1>3, <1>4, <2>1, ApiAssumption
    DEF CallCompartmentFunction, TypeOK, ApiAssumption, Code, Target
<1>6. ProxyIsCurrent'
  BY <1>1, <1>2 DEF CallCompartmentFunction, ProxyIsCurrent, InMain
<1>7. CallingCompartment'
  BY <1>1, <1>2, <1>3, <1>4 DEF CallCompartmentFunction, InMain, CallingCompartment, ApiCall
<1> QED
  BY <1>5, <1>6, <1>7 DEF Inv, Place

LEMMA CallUnknownFunctionKeepsInv ==
  ASSUME Inv, NEW f \in ApiFn, CallUnknownFunction(f)
  PROVE  Inv'
<1>1. InMain /\ TypeOK
  BY PlaceOfControl DEF Inv, CallUnknownFunction
<1>2. TypeOK'
  BY <1>1 DEF CallUnknownFunction, machine, program, TypeOK, Code
<1>3. ProxyIsCurrent'
  BY <1>1 DEF CallUnknownFunction, program, ProxyIsCurrent, InMain
<1>4. Stopped'
  BY <1>1 DEF CallUnknownFunction, machine, InMain, Stopped, MainSp
<1> QED
  BY <1>2, <1>3, <1>4 DEF Inv, Place

LEMMA MainExitKeepsInv ==
  ASSUME Inv, MainExit
  PROVE  Inv'
<1>1. InMain /\ TypeOK
  BY PlaceOfControl DEF Inv, MainExit
<1>2. TypeOK'
  BY <1>1 DEF MainExit, machine, program, TypeOK, Code
<1>3. ProxyIsCurrent'
  BY <1>1 DEF MainExit, program, ProxyIsCurrent, InMain
<1>4. InMain'
  BY <1>1 DEF MainExit, machine, program, InMain, CallRegisters, MainSp
<1> QED
  BY <1>2, <1>3, <1>4 DEF Inv, Place

(* Writes to the compartment's stack, or below the outer switch frame,     *)
(* leave the manager's open frames as they are.                            *)
LEMMA ExecutiveFramesKept ==
  ASSUME \A i \in Base(1) .. ExecTop : i # Base(1) => mem'[i] = mem[i],
         UNCHANGED before
  PROVE  /\ ManagerCallerFrame => ManagerCallerFrame'
         /\ OuterSwitchFrame /\ (before.callbacks = 0 => mem'[Base(1)] = mem[Base(1)])
              => OuterSwitchFrame'
<1>1. ManagerCallerFrame => ManagerCallerFrame'
  <2>1. mem'[CallerSp + CallerFp + 1] = mem[CallerSp + CallerFp + 1]
    BY Layout
  <2>2. mem'[CallerSp + CalleeSave] = mem[CallerSp + CalleeSave]
    BY Layout
  <2> QED
    BY <2>1, <2>2 DEF ManagerCallerFrame
<1>2. /\ mem'[Base(1) + DdcSlot] = mem[Base(1) + DdcSlot]
      /\ mem'[Base(1) + CtpidrSlot] = mem[Base(1) + CtpidrSlot]
      /\ mem'[Base(1) + ClrSlot] = mem[Base(1) + ClrSlot]
      /\ mem'[Base(1) + RecordSlot] = mem[Base(1) + RecordSlot]
      /\ Base(1) + CspSlot = Base(1)
  BY Layout DEF CspSlot, DdcSlot, CtpidrSlot, ClrSlot, RecordSlot
<1> QED
  BY <1>1, <1>2 DEF OuterSwitchFrame

(* The prologue of CompartmentCaller, on the executive stack and on the    *)
(* compartment's: it writes its own frame only.                            *)
LEMMA CompartmentCallerKeepsInv ==
  ASSUME Inv, CompartmentCaller
  PROVE  Inv'
<1>1. /\ pc' = "CompartmentSwitchEntry" /\ mode' = "executive"
      /\ UNCHANGED <<rddc, rctpidr, x19, c0, c1, c2>> /\ UNCHANGED program
  BY DEF CompartmentCaller
<1>2. CASE mode = "executive"
  <2>1. CallingCompartment /\ TypeOK /\ ProxyIsCurrent
    BY <1>2, PlaceOfControl DEF Inv, CompartmentCaller
  <2>2. /\ csp' = CallerSp /\ rcsp' = rcsp /\ c29' = CallerSp + CallerFp /\ c30' = InCapMgr
        /\ mem' = [mem EXCEPT ![CallerSp + CallerFp] = c29,
                              ![CallerSp + CallerFp + 1] = c30,
                              ![CallerSp + CalleeSave] = x19]
    BY <1>2, <2>1 DEF CompartmentCaller, StackPointer, CallingCompartment, CallerSp
  <2>3. /\ CallerSp + CallerFp \in Addr /\ CallerSp + CallerFp + 1 \in Addr
        /\ CallerSp + CalleeSave \in Addr /\ CallerSp \in 1 .. ExecTop
    BY Layout DEF Addr
  <2>4. mem \in [Addr -> Int] /\ c29 \in Int /\ c30 \in Int /\ x19 \in Int
    BY <2>1 DEF TypeOK, Addr
  <2>5. mem' \in [Addr -> Int]
    BY <2>2, <2>4
  <2>6. TypeOK'
    <3>1. csp' \in 1 .. ExecTop /\ rcsp' \in Int /\ c29' \in Int /\ c30' \in Int
      BY <2>1, <2>2, <2>3 DEF InCapMgr, TypeOK
    <3> QED
      BY <1>1, <2>1, <2>5, <3>1 DEF TypeOK, program, Code
  <2>7. ManagerCallerFrame'
    BY <2>1, <2>2, <2>3, <2>4, Layout DEF CallingCompartment, ManagerCallerFrame
  <2>8. ProxyIsCurrent'
    BY <1>1, <2>1 DEF program, ProxyIsCurrent
  <2>9. EnteringCompartment'
    BY <1>1, <2>1, <2>2, <2>7
    DEF program, CallingCompartment, EnteringCompartment, CallRegisters, ApiCall
  <2> QED
    BY <2>6, <2>8, <2>9 DEF Inv, Place
<1>3. CASE mode # "executive"
  <2>1. CallingService /\ TypeOK /\ ProxyIsCurrent
    BY <1>3, PlaceOfControl DEF Inv, CompartmentCaller
  <2>2. /\ csp' = csp /\ rcsp' = CompCallerSp /\ c29' = CompCallerSp + CallerFp
        /\ c30' = InCompartment
        /\ mem' = [mem EXCEPT ![CompCallerSp + CallerFp] = c29,
                              ![CompCallerSp + CallerFp + 1] = c30,
                              ![CompCallerSp + CalleeSave] = x19]
    BY <1>3, <2>1
    DEF CompartmentCaller, StackPointer, CallingService, CompartmentRegisters, CompCallerSp
  <2>3. /\ CompCallerSp + CallerFp \in Addr /\ CompCallerSp + CallerFp + 1 \in Addr
        /\ CompCallerSp + CalleeSave \in Addr /\ CompCallerSp \in Int
    BY Layout DEF Addr
  <2>4. mem \in [Addr -> Int] /\ c29 \in Int /\ c30 \in Int /\ x19 \in Int
    BY <2>1 DEF TypeOK, Addr
  <2>5. mem' \in [Addr -> Int]
    BY <2>2, <2>4
  <2>6. TypeOK'
    <3>1. csp' \in 1 .. ExecTop /\ rcsp' \in Int /\ c29' \in Int /\ c30' \in Int
      BY <2>1, <2>2, <2>3 DEF InCompartment, TypeOK
    <3> QED
      BY <1>1, <2>1, <2>5, <3>1 DEF TypeOK, program, Code
  <2>7. CompartmentCallerFrame'
    BY <2>1, <2>2, <2>3, <2>4, Layout DEF CallingService, CompartmentCallerFrame
  <2>8. \A i \in 1 .. ExecTop : mem'[i] = mem[i]
    <3> SUFFICES ASSUME NEW i \in 1 .. ExecTop PROVE mem'[i] = mem[i]
      OBVIOUS
    <3>1. /\ i \in Addr /\ i # CompCallerSp + CallerFp /\ i # CompCallerSp + CallerFp + 1
          /\ i # CompCallerSp + CalleeSave
      BY Layout DEF Addr
    <3> QED
      BY <2>2, <2>4, <3>1
  <2>9. ManagerCallerFrame' /\ OuterSwitchFrame'
    BY <1>1, <2>1, <2>8, ExecutiveFramesKept, Layout DEF CallingService, program
  <2>10. ProxyIsCurrent'
    BY <1>1, <2>1 DEF program, ProxyIsCurrent
  <2>11. EnteringService'
    BY <1>1, <2>1, <2>2, <2>7, <2>9
    DEF program, CallingService, EnteringService, CompartmentRegisters, ApiCall
  <2> QED
    BY <2>6, <2>10, <2>11 DEF Inv, Place
<1> QED
  BY <1>2, <1>3

(* CompartmentSwitchEntry saves FP, CLR and the restricted registers.  The  *)
(* slot it writes beyond its frame is, for a call by main, the lowest slot *)
(* of CompartmentCaller's frame; for a service call, the saved RCSP of the *)
(* outer switch frame.                                                     *)
LEMMA CompartmentSwitchEntryKeepsInv ==
  ASSUME Inv, CompartmentSwitchEntry
  PROVE  Inv'
<1>1. TypeOK /\ ProxyIsCurrent /\ (EnteringCompartment \/ EnteringService)
  BY PlaceOfControl DEF Inv, CompartmentSwitchEntry
<1>2. /\ c0' = [c2 EXCEPT !.kind = "object"] /\ c30' = Null /\ x19' = Null
      /\ pc' = c1 /\ UNCHANGED <<c1, c2>> /\ UNCHANGED program
  BY DEF CompartmentSwitchEntry
<1>3. c0' \in Payload /\ c0'.fn = c2.fn
  BY <1>1, <1>2 DEF TypeOK, Payload
<1>4. /\ mem \in [Addr -> Int] /\ c29 \in Int /\ c30 \in Int
      /\ rcsp \in Int /\ rddc \in Int /\ rctpidr \in Int
  BY <1>1 DEF TypeOK, Addr
<1>5. ProxyIsCurrent' \/ pc' \in {"CallFunction", "Function"}
  BY <1>1, <1>2 DEF program, ProxyIsCurrent
<1>6. CASE EnteringCompartment
  <2>1. /\ csp' = Base(1) /\ c29' = Base(1) + RecordSlot /\ rcsp' = CompTos
        /\ rddc' = Null /\ rctpidr' = CompCtpidr /\ mode' = "restricted"
        /\ pc' = "CompartmentUnwrap"
    BY <1>6 DEF CompartmentSwitchEntry, EnteringCompartment, CompartmentData, Base, CallerSp,
         SwitchFrame
  <2>2. mem' = [mem EXCEPT ![Base(1) + 4] = c29, ![Base(1) + 5] = c30, ![Base(1)] = rcsp,
                           ![Base(1) + 1] = rddc, ![Base(1) + 2] = rctpidr, ![Base(1) + 3] = c30]
    <3>1. csp - SwitchFrame = Base(1) /\ Base(1) + 0 = Base(1) /\ Base(1) + 4 + 1 = Base(1) + 5
      BY <1>6, Layout DEF EnteringCompartment
    <3> QED
      BY <3>1 DEF CompartmentSwitchEntry, RecordSlot, CspSlot, DdcSlot, CtpidrSlot, ClrSlot
  <2>3. mem' \in [Addr -> Int]
    BY <1>4, <2>2
  <2>4. OuterSwitchFrame'
    <3>1. /\ Base(1) \in Addr /\ Base(1) + 1 \in Addr /\ Base(1) + 2 \in Addr
          /\ Base(1) + 3 \in Addr /\ Base(1) + 4 \in Addr /\ Base(1) \in Int
      BY Layout DEF Addr
    <3>2. /\ mem'[Base(1)] = rcsp /\ mem'[Base(1) + 1] = rddc /\ mem'[Base(1) + 2] = rctpidr
          /\ mem'[Base(1) + 3] = c30 /\ mem'[Base(1) + 4] = c29
      BY <1>4, <2>2, <3>1
    <3>3. Base(1) + CspSlot = Base(1)
      BY <3>1 DEF CspSlot
    <3> QED
      BY <1>2, <1>6, <3>2, <3>3 DEF EnteringCompartment, OuterSwitchFrame, CallRegisters, program,
         DdcSlot, CtpidrSlot, ClrSlot, RecordSlot
  <2>5. ManagerCallerFrame'
    <3>1. \A i \in Addr : i > CallerSp => mem'[i] = mem[i]
      BY <1>4, <2>2, Layout
    <3>2. /\ CallerSp + CallerFp + 1 \in Addr /\ CallerSp + CallerFp + 1 > CallerSp
          /\ CallerSp + CalleeSave \in Addr /\ CallerSp + CalleeSave > CallerSp
      BY Layout DEF Addr
    <3> QED
      BY <1>6, <3>1, <3>2 DEF EnteringCompartment, ManagerCallerFrame
  <2>6. TypeOK'
    <3>1. /\ csp' \in 1 .. ExecTop /\ c29' \in Int /\ rcsp' \in Int /\ rddc' \in Int
          /\ rctpidr' \in Int /\ c30' \in Int /\ x19' \in Int
      BY <1>2, <2>1, Layout DEF Addr, Null, CompCtpidr, RecordSlot
    <3> QED
      BY <1>1, <1>2, <1>3, <2>1, <2>3, <3>1 DEF TypeOK, program, Code
  <2>7. InUnwrap'
    BY <1>2, <1>3, <1>6, <2>1, <2>4, <2>5
    DEF InUnwrap, EnteringCompartment, CompartmentRegisters, program, ApiCall
  <2> QED
    BY <1>5, <2>1, <2>6, <2>7 DEF Inv, Place
<1>7. CASE EnteringService
  <2>1. /\ csp' = Base(2) /\ c29' = Base(2) + RecordSlot /\ rcsp' = Null
        /\ rddc' = Null /\ rctpidr' = Null /\ mode' = "executive"
        /\ pc' = "CompartmentServiceHandler"
    BY <1>7, Layout DEF CompartmentSwitchEntry, EnteringService, CompartmentData
  <2>2. mem' = [mem EXCEPT ![Base(2) + 4] = c29, ![Base(2) + 5] = c30, ![Base(2)] = rcsp,
                           ![Base(2) + 1] = rddc, ![Base(2) + 2] = rctpidr, ![Base(2) + 3] = c30]
    <3>1. csp - SwitchFrame = Base(2) /\ Base(2) + 0 = Base(2)
          /\ Base(2) + 4 + 1 = Base(2) + 5
      BY <1>7, Layout DEF EnteringService
    <3> QED
      BY <3>1 DEF CompartmentSwitchEntry, RecordSlot, CspSlot, DdcSlot, CtpidrSlot, ClrSlot
  <2>3. mem' \in [Addr -> Int]
    BY <1>4, <2>2
  <2>4. InnerSwitchFrame'
    <3>1. /\ Base(2) \in Addr /\ Base(2) + 1 \in Addr /\ Base(2) + 2 \in Addr
          /\ Base(2) + 3 \in Addr /\ Base(2) + 4 \in Addr /\ Base(2) \in Int
      BY Layout DEF Addr
    <3>2. /\ mem'[Base(2)] = rcsp /\ mem'[Base(2) + 1] = rddc /\ mem'[Base(2) + 2] = rctpidr
          /\ mem'[Base(2) + 3] = c30 /\ mem'[Base(2) + 4] = c29
      BY <1>4, <2>2, <3>1
    <3>3. Base(2) + CspSlot = Base(2)
      BY <3>1 DEF CspSlot
    <3> QED
      BY <1>7, <3>2, <3>3 DEF EnteringService, InnerSwitchFrame, CompartmentRegisters,
         DdcSlot, CtpidrSlot, ClrSlot, RecordSlot
  <2>5. \A i \in Addr : i > Base(1) => mem'[i] = mem[i]
    BY <1>4, <2>2, Layout
  <2>6. CompartmentCallerFrame'
    <3>1. /\ CompCallerSp + CallerFp \in Addr /\ CompCallerSp + CallerFp > Base(1)
          /\ CompCallerSp + CallerFp + 1 \in Addr /\ CompCallerSp + CallerFp + 1 > Base(1)
          /\ CompCallerSp + CalleeSave \in Addr /\ CompCallerSp + CalleeSave > Base(1)
      BY Layout DEF Addr
    <3> QED
      BY <1>7, <2>5, <3>1 DEF EnteringService, CompartmentCallerFrame
  <2>7. ManagerCallerFrame' /\ OuterSwitchFrame'
    <3>1. \A i \in Base(1) .. ExecTop : i # Base(1) => i \in Addr /\ i > Base(1)
      BY Layout DEF Addr
    <3> QED
      BY <1>2, <1>7, <2>5, <3>1, ExecutiveFramesKept DEF EnteringService, program
  <2>8. TypeOK'
    <3>1. /\ csp' \in 1 .. ExecTop /\ c29' \in Int /\ rcsp' \in Int /\ rddc' \in Int
          /\ rctpidr' \in Int /\ c30' \in Int /\ x19' \in Int
      BY <1>2, <2>1, Layout DEF Addr, Null, RecordSlot
    <3> QED
      BY <1>1, <1>2, <1>3, <2>1, <2>3, <3>1 DEF TypeOK, program, Code
  <2>9. InHandler'
    BY <1>2, <1>3, <1>7, <2>1, <2>4, <2>6, <2>7
    DEF InHandler, EnteringService, ServiceFrames, program, ApiCall
  <2> QED
    BY <1>5, <2>1, <2>8, <2>9 DEF Inv, Place
<1> QED
  BY <1>1, <1>6, <1>7

(* The compartment's own steps write to its stack only.                    *)
LEMMA CompartmentUnwrapKeepsInv ==
  ASSUME Inv, CompartmentUnwrap
  PROVE  Inv'
<1>1. TypeOK /\ ProxyIsCurrent /\ InUnwrap
  BY PlaceOfControl DEF Inv, CompartmentUnwrap
<1>2. /\ rcsp' = UnwrapSp /\ c29' = UnwrapSp + UnwrapFp
      /\ mem' = [mem EXCEPT ![UnwrapSp + UnwrapFp] = c29, ![UnwrapSp + UnwrapFp + 1] = c30]
  BY <1>1 DEF CompartmentUnwrap, InUnwrap, CompartmentRegisters, UnwrapSp
<1>3. /\ UnwrapSp + UnwrapFp \in Addr /\ UnwrapSp + UnwrapFp > ExecTop /\ UnwrapSp \in Int
      /\ UnwrapSp + UnwrapFp + 1 > ExecTop
  BY Layout DEF Addr
<1>4. mem \in [Addr -> Int] /\ c29 \in Int /\ c30 \in Int
  BY <1>1 DEF TypeOK, Addr
<1>5. mem' \in [Addr -> Int]
  BY <1>2, <1>4
<1>6. proxy' = calls /\ proxyObjects' \in Nat
  BY <1>1 DEF CompartmentUnwrap, InUnwrap, TypeOK
<1>7. TypeOK'
  BY <1>1, <1>2, <1>3, <1>5, <1>6 DEF CompartmentUnwrap, TypeOK, Code
<1>8. ProxyIsCurrent'
  BY <1>1, <1>6 DEF CompartmentUnwrap, ProxyIsCurrent, InUnwrap, ApiCall
<1>9. ManagerCallerFrame' /\ OuterSwitchFrame'
  <2>1. \A i \in Base(1) .. ExecTop : mem'[i] = mem[i]
    <3> SUFFICES ASSUME NEW i \in Base(1) .. ExecTop PROVE mem'[i] = mem[i]
      OBVIOUS
    <3>1. i \in Addr /\ i # UnwrapSp + UnwrapFp /\ i # UnwrapSp + UnwrapFp + 1
      BY <1>3, Layout DEF Addr
    <3> QED
      BY <1>2, <1>4, <3>1
  <2>2. Base(1) \in Base(1) .. ExecTop
    BY Layout
  <2> QED
    BY <1>1, <2>1, <2>2, ExecutiveFramesKept DEF InUnwrap, CompartmentUnwrap
<1>10. InCallFunction'
  BY <1>1, <1>2, <1>6, <1>9
  DEF CompartmentUnwrap, InUnwrap, InCallFunction, CompartmentRegisters, ApiCall
<1> QED
  BY <1>7, <1>8, <1>10 DEF Inv, Place

LEMMA CallFunctionKeepsInv ==
  ASSUME Inv, CallFunction
  PROVE  Inv'
<1>1. TypeOK /\ ProxyIsCurrent /\ InCallFunction
  BY PlaceOfControl DEF Inv, CallFunction
<1>2. todo' \in Seq(Service)
  BY <1>1, ApiAssumption DEF CallFunction, InCallFunction, ApiAssumption
<1>3. TypeOK'
  BY <1>1, <1>2 DEF CallFunction, TypeOK, Code, FnLive
<1>4. ProxyIsCurrent'
  BY <1>1 DEF CallFunction, ProxyIsCurrent
<1>5. ManagerCallerFrame' /\ OuterSwitchFrame'
  BY <1>1 DEF CallFunction, InCallFunction, ManagerCallerFrame, OuterSwitchFrame
<1>6. InFunction'
  BY <1>1, <1>5 DEF CallFunction, InCallFunction, InFunction, CompartmentRegisters, ApiCall
<1> QED
  BY <1>3, <1>4, <1>6 DEF Inv, Place

LEMMA CompartmentServiceCallbackKeepsInv ==
  ASSUME Inv, CompartmentServiceCallback
  PROVE  Inv'
<1>1. TypeOK /\ ProxyIsCurrent /\ InFunction
  BY PlaceOfControl DEF Inv, CompartmentServiceCallback
<1>2. PICK service \in Service :
        /\ serviceData' = [fn |-> service, arg |-> data.arg]
        /\ c2' = [kind |-> "sealed", fn |-> service, arg |-> data.arg]
  BY ApiAssumption DEF CompartmentServiceCallback, ApiAssumption
<1>3. data.arg \in Arg
  BY <1>1 DEF InFunction, ApiCall, TypeOK, Object
<1>4. /\ serviceData' \in Object /\ c2' \in Payload /\ c2'.fn \in Service
      /\ c0' \in Payload /\ c0'.kind = "comp_data_nulls"
  BY <1>2, <1>3 DEF CompartmentServiceCallback, Object, Payload, Nothing, Fn
<1>5. /\ before' \in [reg : RestrictedRegisters, callbacks : Nat]
      /\ before'.callbacks > 0 /\ before'.reg = before.reg
  <2>1. before \in [reg : RestrictedRegisters, callbacks : Nat]
    BY <1>1 DEF TypeOK
  <2>2. before' = [before EXCEPT !.callbacks = @ + 1]
    BY DEF CompartmentServiceCallback
  <2> QED
    BY <2>1, <2>2
<1>6. todo' \in Seq(Service)
  BY <1>1 DEF CompartmentServiceCallback, TypeOK
<1>7. TypeOK'
  BY <1>1, <1>4, <1>5, <1>6 DEF CompartmentServiceCallback, TypeOK, Code, Target, InCallback
<1>8. ProxyIsCurrent'
  BY <1>1 DEF CompartmentServiceCallback, ProxyIsCurrent
<1>9. ManagerCallerFrame' /\ OuterSwitchFrame'
  BY <1>1, <1>5
  DEF CompartmentServiceCallback, InFunction, ManagerCallerFrame, OuterSwitchFrame, TypeOK
<1>10. CallingService'
  BY <1>1, <1>4, <1>5, <1>9
  DEF CompartmentServiceCallback, InFunction, CallingService, CompartmentRegisters, ApiCall
<1> QED
  BY <1>7, <1>8, <1>10 DEF Inv, Place

LEMMA UnknownServiceKeepsInv ==
  ASSUME Inv, UnknownService
  PROVE  Inv'
<1>1. TypeOK /\ ProxyIsCurrent /\ InFunction
  BY PlaceOfControl DEF Inv, UnknownService
<1>2. TypeOK'
  BY <1>1 DEF UnknownService, machine, program, TypeOK, Code
<1>3. ProxyIsCurrent'
  BY <1>1 DEF UnknownService, program, ProxyIsCurrent
<1>4. Stopped'
  BY <1>1 DEF UnknownService, machine, program, InFunction, Stopped, OuterSwitchFrame
<1> QED
  BY <1>2, <1>3, <1>4 DEF Inv, Place

LEMMA CompartmentReturnKeepsInv ==
  ASSUME Inv, CompartmentReturn
  PROVE  Inv'
<1>1. TypeOK /\ ProxyIsCurrent /\ InFunction
  BY PlaceOfControl DEF Inv, CompartmentReturn
<1>2. data \in Object /\ memBuff.arg \in Arg \cup {"none"}
  BY <1>1 DEF InFunction, ApiCall, TypeOK, Payload
<1>3. c0' \in Payload
  BY <1>2 DEF CompartmentReturn, Value, Payload, Object
<1>4. TypeOK'
  BY <1>1, <1>3, ApiAssumption DEF CompartmentReturn, TypeOK, Code, ApiAssumption
<1>5. ProxyIsCurrent'
  BY DEF CompartmentReturn, ProxyIsCurrent
<1>6. ManagerCallerFrame' /\ OuterSwitchFrame'
  BY <1>1 DEF CompartmentReturn, InFunction, ManagerCallerFrame, OuterSwitchFrame
<1>7. ReturningToManager'
  BY <1>1, <1>6 DEF CompartmentReturn, InFunction, ReturningToManager, ApiCall
<1> QED
  BY <1>4, <1>5, <1>7 DEF Inv, Place

(* The handler's frame lies below the inner switch frame.                  *)
LEMMA ServiceFramesKept ==
  ASSUME ServiceFrames,
         \A i \in Addr : i >= Base(2) => mem'[i] = mem[i],
         UNCHANGED program
  PROVE  ServiceFrames'
<1>1. ManagerCallerFrame' /\ OuterSwitchFrame'
  <2>1. \A i \in Base(1) .. ExecTop : i \in Addr /\ i >= Base(2)
    BY Layout DEF Addr
  <2>2. Base(1) \in Base(1) .. ExecTop
    BY Layout
  <2> QED
    BY <2>1, <2>2, ExecutiveFramesKept DEF ServiceFrames, program
<1>2. CompartmentCallerFrame'
  <2>1. /\ CompCallerSp + CallerFp \in Addr /\ CompCallerSp + CallerFp >= Base(2)
        /\ CompCallerSp + CallerFp + 1 \in Addr /\ CompCallerSp + CallerFp + 1 >= Base(2)
        /\ CompCallerSp + CalleeSave \in Addr /\ CompCallerSp + CalleeSave >= Base(2)
    BY Layout DEF Addr
  <2> QED
    BY <2>1 DEF ServiceFrames, CompartmentCallerFrame
<1>3. InnerSwitchFrame'
  <2>1. \A k \in 0 .. 4 : Base(2) + k \in Addr /\ Base(2) + k >= Base(2)
    BY Layout DEF Addr
  <2>2. \A k \in 0 .. 4 : mem'[Base(2) + k] = mem[Base(2) + k]
    BY <2>1
  <2>3. {CspSlot, DdcSlot, CtpidrSlot, ClrSlot, RecordSlot} \subseteq 0 .. 4
    BY DEF CspSlot, DdcSlot, CtpidrSlot, ClrSlot, RecordSlot
  <2> QED
    BY <2>2, <2>3 DEF ServiceFrames, InnerSwitchFrame
<1> QED
  BY <1>1, <1>2, <1>3 DEF ServiceFrames, program, ApiCall

LEMMA CompartmentServiceHandlerKeepsInv ==
  ASSUME Inv, CompartmentServiceHandler
  PROVE  Inv'
<1>1. TypeOK /\ ProxyIsCurrent /\ InHandler
  BY PlaceOfControl DEF Inv, CompartmentServiceHandler
<1>2. /\ csp' = HandlerSp /\ c29' = HandlerSp + HandlerFp
      /\ mem' = [mem EXCEPT ![HandlerSp + HandlerFp] = c29, ![HandlerSp + HandlerFp + 1] = c30]
  BY <1>1 DEF CompartmentServiceHandler, InHandler, HandlerSp
<1>3. /\ HandlerSp + HandlerFp \in Addr /\ HandlerSp + HandlerFp < Base(2)
      /\ HandlerSp + HandlerFp + 1 < Base(2) /\ HandlerSp \in 1 .. ExecTop
  BY Layout DEF Addr
<1>4. mem \in [Addr -> Int] /\ c29 \in Int /\ c30 \in Int
  BY <1>1 DEF TypeOK, Addr
<1>5. mem' \in [Addr -> Int]
  BY <1>2, <1>4
<1>6. c0' \in Payload
  BY <1>1 DEF CompartmentServiceHandler, Value, TypeOK, Payload
<1>7. TypeOK'
  BY <1>1, <1>2, <1>3, <1>5, <1>6 DEF CompartmentServiceHandler, TypeOK, Code, program
<1>8. ProxyIsCurrent'
  BY <1>1 DEF CompartmentServiceHandler, ProxyIsCurrent, program
<1>9. ServiceFrames'
  <2>1. \A i \in Addr : i >= Base(2) => mem'[i] = mem[i]
    <3> SUFFICES ASSUME NEW i \in Addr, i >= Base(2) PROVE mem'[i] = mem[i]
      OBVIOUS
    <3>1. i # HandlerSp + HandlerFp /\ i # HandlerSp + HandlerFp + 1
      BY <1>3, Layout DEF Addr
    <3> QED
      BY <1>2, <1>4, <3>1
  <2> QED
    BY <1>1, <2>1, ServiceFramesKept DEF CompartmentServiceHandler, InHandler
<1>10. mem'[HandlerSp + HandlerFp] = Base(2) + RecordSlot
  <2>1. HandlerSp + HandlerFp # HandlerSp + HandlerFp + 1
    BY Layout
  <2> QED
    BY <1>1, <1>2, <1>3, <1>4, <2>1 DEF InHandler
<1>11. LeavingHandler'
  BY <1>1, <1>2, <1>9, <1>10 DEF CompartmentServiceHandler, InHandler, LeavingHandler
<1> QED
  BY <1>7, <1>8, <1>11 DEF Inv, Place

LEMMA CompartmentServiceCallbackSwitchReturnKeepsInv ==
  ASSUME Inv, CompartmentServiceCallbackSwitchReturn
  PROVE  Inv'
<1>1. TypeOK /\ ProxyIsCurrent /\ LeavingHandler
  BY PlaceOfControl DEF Inv, CompartmentServiceCallbackSwitchReturn
<1>2. c29' = Base(2) + RecordSlot
  BY <1>1 DEF CompartmentServiceCallbackSwitchReturn, LeavingHandler
<1>3. csp' = Base(2) /\ c29' \in Int /\ csp' \in 1 .. ExecTop
  BY <1>2, Layout DEF CompartmentServiceCallbackSwitchReturn, RecordSlot, Addr
<1>4. TypeOK'
  BY <1>1, <1>3 DEF CompartmentServiceCallbackSwitchReturn, TypeOK, Code, program
<1>5. ProxyIsCurrent'
  BY <1>1 DEF CompartmentServiceCallbackSwitchReturn, ProxyIsCurrent, program
<1>6. ServiceFrames'
  BY <1>1, ServiceFramesKept DEF CompartmentServiceCallbackSwitchReturn, LeavingHandler
<1>7. ReturningToCompartment'
  BY <1>1, <1>3, <1>6 DEF CompartmentServiceCallbackSwitchReturn, LeavingHandler,
     ReturningToCompartment
<1> QED
  BY <1>4, <1>5, <1>7 DEF Inv, Place

(* CompartmentSwitchReturn reads what CompartmentSwitchEntry saved.        *)
LEMMA CompartmentSwitchReturnKeepsInv ==
  ASSUME Inv, CompartmentSwitchReturn
  PROVE  Inv'
<1>1. TypeOK /\ ProxyIsCurrent /\ (ReturningToCompartment \/ ReturningToManager)
  BY PlaceOfControl DEF Inv, CompartmentSwitchReturn
<1>2. /\ x19' = Null /\ c1' = "none" /\ c2' = Nothing
      /\ csp' = csp + SwitchFrame
      /\ UNCHANGED <<c0, mem>> /\ UNCHANGED program
  BY DEF CompartmentSwitchReturn
<1>3. Nothing \in Payload
  BY DEF Nothing, Payload
<1>4. ProxyIsCurrent' \/ pc' \in {"CallFunction", "Function"}
  BY <1>1, <1>2 DEF program, ProxyIsCurrent
<1>5. CASE ReturningToManager
  <2>1. /\ c30' = InCapMgr /\ c29' = CallerSp + CallerFp
        /\ rddc' = before.reg.rddc /\ rctpidr' = before.reg.rctpidr
        /\ before.callbacks = 0 => rcsp' = before.reg.rcsp
        /\ csp' = CallerSp
    BY <1>5, Layout DEF CompartmentSwitchReturn, ReturningToManager, OuterSwitchFrame
  <2>2. mode' = "executive" /\ pc' = "CallerReturn"
    BY <2>1 DEF CompartmentSwitchReturn, InCapMgr, InCompartment
  <2>3. /\ csp' \in 1 .. ExecTop /\ c29' \in Int /\ rcsp' \in Int /\ rddc' \in Int
        /\ rctpidr' \in Int /\ c30' \in Int /\ x19' \in Int
    <3>1. Base(1) + CspSlot \in Addr
      BY Layout DEF Addr, CspSlot
    <3>2. rcsp' = mem[Base(1) + CspSlot]
      BY <1>5 DEF CompartmentSwitchReturn, ReturningToManager
    <3>3. before.reg \in RestrictedRegisters
      BY <1>1 DEF TypeOK
    <3>4. rcsp' \in Int
      BY <1>1, <3>1, <3>2 DEF TypeOK
    <3>5. rddc' \in Int /\ rctpidr' \in Int
      BY <2>1, <3>3 DEF RestrictedRegisters
    <3>6. csp' \in 1 .. ExecTop /\ c29' \in Int
      BY <2>1, Layout DEF Addr
    <3> QED
      BY <1>2, <2>1, <3>4, <3>5, <3>6 DEF InCapMgr, Null
  <2>4. TypeOK'
    BY <1>1, <1>2, <1>3, <2>2, <2>3 DEF TypeOK, Code, Target, program
  <2>5. ReturnedToManager'
    BY <1>2, <1>5, <2>1, <2>2
    DEF ReturningToManager, ReturnedToManager, CallRegisters, ManagerCallerFrame, program
  <2> QED
    BY <1>4, <2>2, <2>4, <2>5 DEF Inv, Place
<1>6. CASE ReturningToCompartment
  <2>1. /\ c30' = InCompartment /\ c29' = CompCallerSp + CallerFp
        /\ rcsp' = CompCallerSp /\ rddc' = Null /\ rctpidr' = CompCtpidr
        /\ csp' = Base(1)
    BY <1>6, Layout
    DEF CompartmentSwitchReturn, ReturningToCompartment, ServiceFrames, InnerSwitchFrame
  <2>2. mode' = "restricted" /\ pc' = "CallerReturn"
    BY <2>1 DEF CompartmentSwitchReturn, InCompartment
  <2>3. /\ csp' \in 1 .. ExecTop /\ c29' \in Int /\ rcsp' \in Int /\ rddc' \in Int
        /\ rctpidr' \in Int /\ c30' \in Int /\ x19' \in Int
    BY <1>2, <2>1, Layout DEF Addr, InCompartment, Null, CompCtpidr
  <2>4. TypeOK'
    BY <1>1, <1>2, <1>3, <2>2, <2>3 DEF TypeOK, Code, Target, program
  <2>5. ReturnedToCompartment'
    BY <1>2, <1>6, <2>1, <2>2
    DEF ReturningToCompartment, ReturnedToCompartment, CompartmentRegisters, ServiceFrames,
        ManagerCallerFrame, OuterSwitchFrame, CompartmentCallerFrame, ApiCall, program
  <2> QED
    BY <1>4, <2>2, <2>4, <2>5 DEF Inv, Place
<1> QED
  BY <1>1, <1>5, <1>6

(* The epilogue of CompartmentCaller reads what its prologue saved.        *)
LEMMA CallerReturnKeepsInv ==
  ASSUME Inv, CallerReturn
  PROVE  Inv'
<1>1. /\ UNCHANGED <<mode, rddc, rctpidr, c0, c1, c2, mem>>
      /\ UNCHANGED <<proxy, proxyObjects, todo, calls, before>>
  BY DEF CallerReturn
<1>2. CASE mode = "executive"
  <2>1. TypeOK /\ ProxyIsCurrent /\ ReturnedToManager
    BY <1>2, PlaceOfControl DEF Inv, CallerReturn
  <2>2. /\ csp' = MainSp /\ c29' = mem[CallerSp + CallerFp] /\ x19' = MainLive
        /\ UNCHANGED rcsp /\ c30' = InCallFn
        /\ data' = NoObject /\ result' = c0 /\ pc' = "main"
        /\ UNCHANGED <<memBuff, serviceData>>
    BY <1>2, <2>1, Layout
    DEF CallerReturn, StackPointer, ReturnedToManager, ManagerCallerFrame
  <2>3. /\ csp' \in 1 .. ExecTop /\ c29' \in Int /\ c30' \in Int /\ x19' \in Int
    <3>1. CallerSp + CallerFp \in Addr /\ MainSp \in 1 .. ExecTop
      BY Layout DEF Addr
    <3> QED
      BY <2>1, <2>2, <3>1 DEF TypeOK, MainLive, InCallFn
  <2>4. TypeOK'
    BY <1>1, <2>1, <2>2, <2>3 DEF TypeOK, Code
  <2>5. ProxyIsCurrent'
    BY <1>1, <2>1, <2>2 DEF ProxyIsCurrent, ReturnedToManager
  <2>6. InMain'
    BY <1>1, <1>2, <2>1, <2>2 DEF ReturnedToManager, InMain, CallRegisters
  <2> QED
    BY <2>4, <2>5, <2>6 DEF Inv, Place
<1>3. CASE mode # "executive"
  <2>1. TypeOK /\ ProxyIsCurrent /\ ReturnedToCompartment
    BY <1>3, PlaceOfControl DEF Inv, CallerReturn
  <2>2. /\ rcsp' = UnwrapSp /\ c29' = UnwrapSp + UnwrapFp /\ x19' = FnLive /\ UNCHANGED csp
        /\ c30' = InCallback
        /\ serviceData' = NoObject /\ memBuff' = c0 /\ pc' = "Function"
        /\ UNCHANGED <<result, data>>
    BY <1>3, <2>1, Layout
    DEF CallerReturn, StackPointer, ReturnedToCompartment, CompartmentCallerFrame,
        CompartmentRegisters
  <2>3. /\ rcsp' \in Int /\ c29' \in Int /\ c30' \in Int /\ x19' \in Int
    <3>1. UnwrapSp \in Int /\ UnwrapSp + UnwrapFp \in Int
      BY Layout
    <3> QED
      BY <2>2, <3>1 DEF FnLive, InCallback
  <2>4. TypeOK'
    BY <1>1, <2>1, <2>2, <2>3 DEF TypeOK, Code
  <2>5. ProxyIsCurrent'
    BY <1>1, <2>1, <2>2 DEF ProxyIsCurrent, ReturnedToCompartment
  <2>6. ManagerCallerFrame' /\ OuterSwitchFrame'
    BY <1>1, <2>1 DEF ReturnedToCompartment, ManagerCallerFrame, OuterSwitchFrame
  <2>7. InFunction'
    BY <1>1, <2>1, <2>2, <2>6
    DEF ReturnedToCompartment, InFunction, CompartmentRegisters, ApiCall
  <2> QED
    BY <2>4, <2>5, <2>7 DEF Inv, Place
<1> QED
  BY <1>2, <1>3

LEMMA StutterKeepsInv ==
  ASSUME Inv, UNCHANGED vars
  PROVE  Inv'
<1>1. /\ TypeOK' /\ ProxyIsCurrent'
  BY DEF Inv, vars, machine, program, TypeOK, ProxyIsCurrent
<1>2. /\ ManagerCallerFrame => ManagerCallerFrame'
      /\ OuterSwitchFrame => OuterSwitchFrame'
      /\ CompartmentCallerFrame => CompartmentCallerFrame'
      /\ InnerSwitchFrame => InnerSwitchFrame'
      /\ CallRegisters => CallRegisters'
      /\ ApiCall => ApiCall'
      /\ ServiceFrames => ServiceFrames'
  BY DEF vars, machine, program, ManagerCallerFrame, OuterSwitchFrame, CompartmentCallerFrame,
     InnerSwitchFrame, CallRegisters, ApiCall, ServiceFrames
<1>3. Place'
  BY <1>2
  DEF Inv, vars, machine, program, Place, InMain, Stopped, CallingCompartment,
     EnteringCompartment, InUnwrap, InCallFunction, InFunction, CallingService,
     EnteringService, InHandler, LeavingHandler, ReturningToCompartment,
     ReturnedToCompartment, ReturningToManager, ReturnedToManager, CompartmentRegisters
<1> QED
  BY <1>1, <1>3 DEF Inv

LEMMA NextKeepsInv == Inv /\ [Next]_vars => Inv'
<1> SUFFICES ASSUME Inv, [Next]_vars PROVE Inv'
  OBVIOUS
<1>1. CASE Step
  BY <1>1, CallCompartmentFunctionKeepsInv, CallUnknownFunctionKeepsInv, MainExitKeepsInv,
     CompartmentCallerKeepsInv, CallerReturnKeepsInv, CompartmentSwitchEntryKeepsInv,
     CompartmentSwitchReturnKeepsInv, CompartmentServiceCallbackSwitchReturnKeepsInv,
     CompartmentUnwrapKeepsInv, CallFunctionKeepsInv, CompartmentServiceCallbackKeepsInv,
     UnknownServiceKeepsInv, CompartmentReturnKeepsInv, CompartmentServiceHandlerKeepsInv
  DEF Step
<1>2. CASE UNCHANGED vars
  BY <1>2, StutterKeepsInv
<1> QED
  BY <1>1, <1>2 DEF Next, Ended

(* The invariant holds in every behaviour of the switch.                   *)
THEOREM Invariance == Spec => []Inv
<1>1. Init => Inv
  BY InitEstablishesInv
<1>2. Inv /\ [Next]_vars => Inv'
  BY NextKeepsInv
<1> QED
  BY <1>1, <1>2, PTL DEF Spec

(* Types; in particular no CompartmentSwitchReturn ever branches through a *)
(* saved CLR that is not the return address of a CompartmentCaller.        *)
THEOREM Typing == Spec => []TypeOK
<1>1. Inv => TypeOK
  BY DEF Inv
<1> QED
  BY <1>1, Invariance, PTL

(* After any number of calls and callbacks the caller has its executive    *)
(* stack and its callee-saved registers (comp_caller.c:12-20), wherever in *)
(* its frame CompartmentCaller keeps them above the frame record.          *)
THEOREM CallerStateAlwaysRestored == Spec => []CallerStateRestored
<1>1. Inv => CallerStateRestored
  BY PlaceOfControl DEF Inv, InMain, CallerStateRestored
<1> QED
  BY <1>1, Invariance, PTL

(* A service call leaves the compartment function's registers and stack    *)
(* pointers as it found them (compartment_caller_asm.S:113-141).           *)
THEOREM ServiceCallsTransparent == Spec => []ServiceCallTransparent
<1>1. Inv => ServiceCallTransparent
  BY PlaceOfControl DEF Inv, InFunction, CompartmentRegisters, ServiceCallTransparent
<1> QED
  BY <1>1, Invariance, PTL

(* The processor state always matches whose code runs, and compartment     *)
(* code always runs on the compartment's stack.                            *)
THEOREM StateAlwaysMatchesCode == Spec => []StateMatchesCode
<1>1. Inv => StateMatchesCode
  <2> SUFFICES ASSUME Inv PROVE StateMatchesCode
    OBVIOUS
  <2>1. {CompTos, UnwrapSp} \subseteq CompCallerSp .. CompTos
    BY Layout
  <2>2. pc \in CompartmentCode => mode = "restricted" /\ rcsp \in CompCallerSp .. CompTos
    BY <2>1, PlaceOfControl
    DEF Inv, CompartmentCode, InUnwrap, InCallFunction, InFunction, CompartmentRegisters
  <2>3. pc \in ManagerCode => mode = "executive"
    BY PlaceOfControl
    DEF Inv, ManagerCode, InMain, InHandler, EnteringCompartment, EnteringService,
        LeavingHandler, ReturningToCompartment, ReturningToManager
  <2>4. Base(1) # CallerSp
    BY Layout
  <2>5. pc = "CallerReturn" => (mode = "executive" <=> csp = CallerSp)
    BY <2>4, PlaceOfControl DEF Inv, ReturnedToManager, ReturnedToCompartment
  <2> QED
    BY <2>2, <2>3, <2>5 DEF StateMatchesCode
<1> QED
  BY <1>1, Invariance, PTL

(* No step of a callee overwrites the return address or the frame pointer  *)
(* in an open switch frame, although the inner frame overwrites one slot   *)
(* of the outer.                                                           *)
THEOREM OpenFramesAlwaysIntact == Spec => []OpenFramesIntact
<1>1. Inv => OpenFramesIntact
  <2> SUFFICES ASSUME Inv PROVE OpenFramesIntact
    OBVIOUS
  <2>1. \/ csp = MainSp \/ csp = CallerSp
        \/ csp = Base(1) /\ OuterSwitchFrame
        \/ csp \in {Base(2), HandlerSp} /\ OuterSwitchFrame /\ InnerSwitchFrame
    BY DEF Inv, Place, InMain, Stopped, CallingCompartment, EnteringCompartment, InUnwrap,
       InCallFunction, InFunction, CallingService, EnteringService, InHandler, LeavingHandler,
       ReturningToCompartment, ReturnedToCompartment, ReturningToManager, ReturnedToManager,
       ServiceFrames
  <2>2. CASE csp = MainSp \/ csp = CallerSp
    <3>1. csp > Base(1)
      BY <2>2, Layout
    <3> QED
      BY <3>1 DEF OpenFramesIntact, Depth
  <2>3. CASE csp = Base(1) /\ OuterSwitchFrame
    <3>1. ~(csp > Base(1)) /\ csp > Base(2)
      BY <2>3, Layout
    <3> QED
      BY <2>3, <3>1 DEF OpenFramesIntact, Depth, OuterSwitchFrame
  <2>4. CASE csp \in {Base(2), HandlerSp} /\ OuterSwitchFrame /\ InnerSwitchFrame
    BY <2>4 DEF OpenFramesIntact, OuterSwitchFrame, InnerSwitchFrame
  <2> QED
    BY <2>1, <2>2, <2>3, <2>4
<1> QED
  BY <1>1, Invariance, PTL

(* A call restores RDDC and RCTPIDR of main, and RCSP unless the call made *)
(* a service callback, whose frame then overwrote the saved RCSP.          *)
THEOREM RestrictedStateAlwaysRestoredExceptRcsp == Spec => []RestrictedStateRestoredExceptRcsp
<1>1. Inv => RestrictedStateRestoredExceptRcsp
  BY PlaceOfControl DEF Inv, InMain, CallRegisters, RestrictedStateRestoredExceptRcsp
<1> QED
  BY <1>1, Invariance, PTL

(* g_service_call_proxy never refers to the data of a call that is over.   *)
THEOREM ProxyAlwaysCurrent == Spec => []ProxyIsCurrent
<1>1. Inv => ProxyIsCurrent
  BY DEF Inv
<1> QED
  BY <1>1, Invariance, PTL
=============================================================================
