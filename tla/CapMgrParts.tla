------------------------------ MODULE CapMgrParts ------------------------------
(***************************************************************************)
(* The parts that CapMgr composes, in it: each step of the program is one  *)
(* of the libraries (RelocationPatch) or leaves them alone, and so for the *)
(* compartment (CompartmentSetup); what is proved of the parts alone is    *)
(* then true of the program.                                               *)
(*                                                                         *)
(* The theorems about a part are had by instantiating their module under   *)
(* the substitution with which CapMgr instantiates the part; the prover    *)
(* takes Libs!X and LibsProofs!X for two operators, and is shown first     *)
(* that they are the same.                                                 *)
(***************************************************************************)
EXTENDS CapMgr, TLAPS

LibsProofs    == INSTANCE RelocationPatchProofs WITH pc <- libs_pc
SetupProofs   == INSTANCE CompartmentSetupProofs WITH
                   pc <- comp_pc, CompartmentId <- {Id}, SizeMod <- UIntMod
ExampleProofs == INSTANCE ExampleRunProofs WITH pc <- call_pc
------------------------------------------------------------------------------
(* The libraries: the same specification. *)

(* The constants are as the theorems assume.                               *)
LEMMA LibsCapabilities == LibsProofs!CapabilityAssumption
BY PartsAssumption DEF Libs!CapabilityAssumption, LibsProofs!CapabilityAssumption,
       Libs!Address, LibsProofs!Address

LEMMA LibsImages == LibsProofs!ImageAssumption
BY PartsAssumption DEF Libs!ImageAssumption, LibsProofs!ImageAssumption, Libs!Image,
       LibsProofs!Image, Libs!Entry, LibsProofs!Entry, Libs!Table, LibsProofs!Table, Libs!Prot,
       LibsProofs!Prot, Libs!Cap, LibsProofs!Cap, Libs!Proper, LibsProofs!Proper, Libs!Address,
       LibsProofs!Address

(* The derived capability, operator by operator.                           *)
LEMMA SameFixupValue ==
  \A c, restricted :
    Libs!DeriveFixupValue(c, restricted) = LibsProofs!DeriveFixupValue(c, restricted)
<1>1. \A c, a : Libs!AddressSet(c, a) = LibsProofs!AddressSet(c, a)
  BY DEF Libs!AddressSet, LibsProofs!AddressSet
<1>2. \A c, len : Libs!BoundsSet(c, len) = LibsProofs!BoundsSet(c, len)
  BY DEF Libs!BoundsSet, LibsProofs!BoundsSet
<1>3. \A c, perms : Libs!PermsAnd(c, perms) = LibsProofs!PermsAnd(c, perms)
  BY DEF Libs!PermsAnd, LibsProofs!PermsAnd
<1>4. \A c : Libs!SentryCreate(c) = LibsProofs!SentryCreate(c)
  BY DEF Libs!SentryCreate, LibsProofs!SentryCreate
<1>5. \A p, c : Libs!Within(p, c) <=> LibsProofs!Within(p, c)
  BY DEF Libs!Within, LibsProofs!Within
<1>6. \A c, offset : Libs!OffsetSet(c, offset) = LibsProofs!OffsetSet(c, offset)
  BY <1>1 DEF Libs!OffsetSet, LibsProofs!OffsetSet
<1>7. \A m, p : Libs!SetBoundsAndAddress(m, p) = LibsProofs!SetBoundsAndAddress(m, p)
  BY <1>1, <1>2, <1>6 DEF Libs!SetBoundsAndAddress, LibsProofs!SetBoundsAndAddress
<1>8. \A m, p, s, d : Libs!DeriveFromCap(m, p, s, d) = LibsProofs!DeriveFromCap(m, p, s, d)
  BY <1>1, <1>3, <1>4, <1>5, <1>7 DEF Libs!DeriveFromCap, LibsProofs!DeriveFromCap
<1> QED BY <1>8 DEF Libs!DeriveFixupValue, LibsProofs!DeriveFixupValue

(* The steps.                                                              *)
LEMMA LibsSameSteps == (Libs!Step <=> LibsProofs!Step) /\ (Libs!Next <=> LibsProofs!Next)
<1> USE DEF Libs!parsed, LibsProofs!parsed, Libs!pass, LibsProofs!pass, Libs!protecting,
            LibsProofs!protecting, Libs!patching, LibsProofs!patching, Libs!progress,
            LibsProofs!progress, Libs!Map, LibsProofs!Map
<1>1. Libs!Dlopen <=> LibsProofs!Dlopen
  BY DEF Libs!Dlopen, LibsProofs!Dlopen
<1>2. Libs!DlopenFails <=> LibsProofs!DlopenFails
  BY DEF Libs!DlopenFails, LibsProofs!DlopenFails, Libs!Throw, LibsProofs!Throw
<1>3. Libs!ParseEntry <=> LibsProofs!ParseEntry
  BY DEF Libs!ParseEntry, LibsProofs!ParseEntry, Libs!Rejected, LibsProofs!Rejected,
         Libs!Loadable, LibsProofs!Loadable, Libs!PltRel, LibsProofs!PltRel
<1>4. Libs!LoadThrows <=> LibsProofs!LoadThrows
  BY DEF Libs!LoadThrows, LibsProofs!LoadThrows, Libs!Throw, LibsProofs!Throw, Libs!Rejected,
         LibsProofs!Rejected, Libs!Loadable, LibsProofs!Loadable, Libs!PltRel,
         LibsProofs!PltRel
<1>5. Libs!NothingLoaded <=> LibsProofs!NothingLoaded
  BY DEF Libs!NothingLoaded, LibsProofs!NothingLoaded, Libs!Throw, LibsProofs!Throw
<1>6. Libs!DumpThrows <=> LibsProofs!DumpThrows
  BY DEF Libs!DumpThrows, LibsProofs!DumpThrows, Libs!Throw, LibsProofs!Throw,
         Libs!MalformedIn, LibsProofs!MalformedIn
<1>7. Libs!LibsLoaded <=> LibsProofs!LibsLoaded
  BY DEF Libs!LibsLoaded, LibsProofs!LibsLoaded, Libs!StartPass, LibsProofs!StartPass
<1>8. Libs!PassDone <=> LibsProofs!PassDone
  BY DEF Libs!PassDone, LibsProofs!PassDone
<1>9. Libs!PassFails <=> LibsProofs!PassFails
  BY DEF Libs!PassFails, LibsProofs!PassFails, Libs!AfterFailure, LibsProofs!AfterFailure
<1>10. Libs!DoLibCapFixups <=> LibsProofs!DoLibCapFixups
  BY DEF Libs!DoLibCapFixups, LibsProofs!DoLibCapFixups
<1>11. Libs!ProtectBlock <=> LibsProofs!ProtectBlock
  BY DEF Libs!ProtectBlock, LibsProofs!ProtectBlock, Libs!Mprotect, LibsProofs!Mprotect,
         Libs!Required, LibsProofs!Required, Libs!RW, LibsProofs!RW
<1>12. Libs!ProtectFails <=> LibsProofs!ProtectFails
  BY DEF Libs!ProtectFails, LibsProofs!ProtectFails
<1>13. Libs!Unprotected <=> LibsProofs!Unprotected
  BY DEF Libs!Unprotected, LibsProofs!Unprotected
<1>14. Libs!Restored <=> LibsProofs!Restored
  BY DEF Libs!Restored, LibsProofs!Restored
<1>15. Libs!PatchCap <=> LibsProofs!PatchCap
  BY SameFixupValue DEF Libs!PatchCap, LibsProofs!PatchCap, Libs!InTable, LibsProofs!InTable,
         Libs!NeedsFixup, LibsProofs!NeedsFixup, Libs!CurrentTable, LibsProofs!CurrentTable,
         Libs!CurrentReloc, LibsProofs!CurrentReloc
<1>16. Libs!SkipReloc <=> LibsProofs!SkipReloc
  BY DEF Libs!SkipReloc, LibsProofs!SkipReloc, Libs!InTable, LibsProofs!InTable,
         Libs!NeedsFixup, LibsProofs!NeedsFixup, Libs!CurrentTable, LibsProofs!CurrentTable,
         Libs!CurrentReloc, LibsProofs!CurrentReloc
<1>17. Libs!NextTable <=> LibsProofs!NextTable
  BY DEF Libs!NextTable, LibsProofs!NextTable, Libs!CurrentTable, LibsProofs!CurrentTable
<1>18. Libs!MalformedTable <=> LibsProofs!MalformedTable
  BY DEF Libs!MalformedTable, LibsProofs!MalformedTable, Libs!Throw, LibsProofs!Throw,
         Libs!CurrentTable, LibsProofs!CurrentTable
<1>19. Libs!TablesDone <=> LibsProofs!TablesDone
  BY DEF Libs!TablesDone, LibsProofs!TablesDone
<1>20. Libs!RunThrows <=> LibsProofs!RunThrows
  BY DEF Libs!RunThrows, LibsProofs!RunThrows, Libs!Throw, LibsProofs!Throw
<1>21. Libs!EndStatic <=> LibsProofs!EndStatic
  BY DEF Libs!EndStatic, LibsProofs!EndStatic
<1>22. Libs!Revert <=> LibsProofs!Revert
  BY DEF Libs!Revert, LibsProofs!Revert, Libs!StartPass, LibsProofs!StartPass
<1>23. Libs!DeleteLibs <=> LibsProofs!DeleteLibs
  BY DEF Libs!DeleteLibs, LibsProofs!DeleteLibs
<1>24. Libs!Ended <=> LibsProofs!Ended
  BY DEF Libs!Ended, LibsProofs!Ended, Libs!vars, LibsProofs!vars
<1>25. \A s \in Slot : Libs!CompartmentWrites(s) <=> LibsProofs!CompartmentWrites(s)
  BY DEF Libs!CompartmentWrites, LibsProofs!CompartmentWrites, Libs!Executive,
         LibsProofs!Executive, Libs!Cardinality, LibsProofs!Cardinality
<1> HIDE DEF Libs!parsed, LibsProofs!parsed, Libs!pass, LibsProofs!pass, Libs!protecting,
            LibsProofs!protecting, Libs!patching, LibsProofs!patching, Libs!progress,
            LibsProofs!progress, Libs!Map, LibsProofs!Map
<1>26. Libs!Step <=> LibsProofs!Step
  BY <1>1, <1>2, <1>3, <1>4, <1>5, <1>6, <1>7, <1>8, <1>9, <1>10, <1>11, <1>12, <1>13, <1>14,
     <1>15, <1>16, <1>17, <1>18, <1>19, <1>20, <1>21, <1>22, <1>23
     DEF Libs!Step, LibsProofs!Step
<1> QED BY <1>24, <1>25, <1>26 DEF Libs!Next, LibsProofs!Next

(* So their theorems are of both.                                          *)
LEMMA LibsSameSpec == Libs!Spec <=> LibsProofs!Spec
<1>1. Libs!Init <=> LibsProofs!Init
  BY DEF Libs!Init, LibsProofs!Init
<1>2. Libs!vars = LibsProofs!vars
  BY DEF Libs!vars, LibsProofs!vars, Libs!progress, LibsProofs!progress, Libs!parsed,
         LibsProofs!parsed, Libs!pass, LibsProofs!pass, Libs!protecting, LibsProofs!protecting,
         Libs!patching, LibsProofs!patching
<1>3. [Libs!Next]_(Libs!vars) <=> [LibsProofs!Next]_(LibsProofs!vars)
  <2>1. (Libs!vars)' = (LibsProofs!vars)'
    BY DEF Libs!vars, LibsProofs!vars, Libs!progress, LibsProofs!progress, Libs!parsed,
           LibsProofs!parsed, Libs!pass, LibsProofs!pass, Libs!protecting,
           LibsProofs!protecting, Libs!patching, LibsProofs!patching
  <2> QED BY <1>2, <2>1, LibsSameSteps
<1> QED BY <1>1, <1>3, PTL DEF Libs!Spec, LibsProofs!Spec
------------------------------------------------------------------------------
(* The libraries in the program. *)

(* The program starts as the libraries do, and leaves them alone when it  *)
(* is at something else.                                                   *)
LEMMA LibsInit == Init => Libs!Init
BY DEF Init

LEMMA LibsUnchanged ==
  ASSUME UNCHANGED libs
  PROVE  UNCHANGED Libs!vars
BY DEF libs, Libs!vars, Libs!progress, Libs!parsed, Libs!pass, Libs!protecting, Libs!patching

(* What CapMgr adds to a step of the libraries only restricts it.          *)
LEMMA LibsStepIsNext ==
  ASSUME LibsStep
  PROVE  Libs!Next
BY DEF LibsStep, LibsLoaded, DumpLibs, Libs!Next, Libs!Step

(* A step of the program is one of the libraries, or leaves them alone.    *)
LEMMA LibsNext ==
  ASSUME [Next]_vars
  PROVE  [Libs!Next]_(Libs!vars)
<1>1. CASE LibsStep
  BY <1>1, LibsStepIsNext
<1>2. CASE EntryPointNotFound \/ FunctionNotFound
  BY <1>2 DEF EntryPointNotFound, FunctionNotFound, Libs!Next, Libs!Step
<1>3. CASE lib_restore_and_end
  BY <1>3 DEF lib_restore_and_end, Libs!Next, Libs!Step
<1>4. CASE FunctionWrites
  BY <1>4 DEF FunctionWrites, Libs!Next
<1>5. CASE StartOptions \/ TakeOption \/ print_help \/ set_capmgr_log_level
  BY <1>5, LibsUnchanged DEF StartOptions, TakeOption, print_help, set_capmgr_log_level
<1>6. CASE \/ CCompartment \/ CallApiFn \/ Switch \/ FunctionReturns \/ FunctionCallsService
           \/ ServiceDone \/ FunctionFaults
  BY <1>6, LibsUnchanged
     DEF CCompartment, CallApiFn, Switch, FunctionReturns, FunctionCallsService, ServiceDone,
         FunctionFaults
<1>7. CASE UNCHANGED vars
  BY <1>7, LibsUnchanged DEF vars
<1> QED BY <1>1, <1>2, <1>3, <1>4, <1>5, <1>6, <1>7 DEF Next, Step, Calls

(* The whole program, with the options, the calls and what ends them,      *)
(* treats its libraries as RelocationPatch says: main reverts only after   *)
(* it has patched, and the code of the compartment gets at the symbols     *)
(* only between the two.                                                   *)
THEOREM CapMgrImplementsRelocationPatch == Spec => Libs!Spec
BY LibsInit, LibsNext, PTL DEF Spec, Libs!Spec

(* So no symbol of a library is executive while the compartment runs.      *)
THEOREM CapMgrConfined == Spec => []Libs!Confined
<1>1. LibsProofs!Confined <=> Libs!Confined
  BY DEF Libs!Confined, LibsProofs!Confined, Libs!IsLib, LibsProofs!IsLib, Libs!FixSlots,
         LibsProofs!FixSlots, Libs!Map, LibsProofs!Map, Libs!Executive, LibsProofs!Executive
<1>2. LibsProofs!Spec => []LibsProofs!Confined
  BY LibsProofs!AlwaysConfined, LibsCapabilities, LibsImages
<1> QED BY <1>1, <1>2, LibsSameSpec, CapMgrImplementsRelocationPatch, PTL

(* And what the compartment has left alone is the linker's again when main *)
(* has reverted the patches, or has gained the executive permission.       *)
THEOREM CapMgrRoundTrip == Spec => []Libs!RoundTrip
<1>1. LibsProofs!RoundTrip <=> Libs!RoundTrip
  BY DEF Libs!RoundTrip, LibsProofs!RoundTrip, Libs!Rebuildable, LibsProofs!Rebuildable,
         Libs!Reverted, LibsProofs!Reverted,
         Libs!Within, LibsProofs!Within
<1>2. LibsProofs!Spec => []LibsProofs!RoundTrip
  BY LibsProofs!AlwaysRoundTrip, LibsCapabilities, LibsImages
<1> QED BY <1>1, <1>2, LibsSameSpec, CapMgrImplementsRelocationPatch, PTL

(* The whole program confines its compartment as Confinement says.         *)
THEOREM CapMgrConfines == Spec => Libs!ImplementsConfinement
<1> DEFINE Symbols == {s \in Libs!LibSymbols : Libs!Executive(mem[s])}
           Same == {s \in LibsProofs!LibSymbols : LibsProofs!Executive(mem[s])}
<1>1. LibsProofs!Phase = Libs!Phase /\ Same = Symbols
  BY DEF Libs!Phase, LibsProofs!Phase, Libs!LibSymbols, LibsProofs!LibSymbols, Libs!IsLib,
         LibsProofs!IsLib, Libs!FixSlots, LibsProofs!FixSlots, Libs!Map, LibsProofs!Map,
         Libs!Executive, LibsProofs!Executive
<1>2. LibsProofs!Phase' = Libs!Phase' /\ Same' = Symbols'
  BY DEF Libs!Phase, LibsProofs!Phase, Libs!LibSymbols, LibsProofs!LibSymbols, Libs!IsLib,
         LibsProofs!IsLib, Libs!FixSlots, LibsProofs!FixSlots, Libs!Map, LibsProofs!Map,
         Libs!Executive, LibsProofs!Executive
<1>3. LibsProofs!Confining!Init <=> Libs!Confining!Init
  BY <1>1 DEF Libs!Confining!Init, LibsProofs!Confining!Init
<1>4. LibsProofs!Confining!Next <=> Libs!Confining!Next
  BY <1>1, <1>2 DEF Libs!Confining!Next, LibsProofs!Confining!Next, Libs!Confining!Patch,
         LibsProofs!Confining!Patch, Libs!Confining!Run, LibsProofs!Confining!Run,
         Libs!Confining!Revert, LibsProofs!Confining!Revert, Libs!Confining!End,
         LibsProofs!Confining!End
<1>5. [LibsProofs!Confining!Next]_<<LibsProofs!Phase, Same>>
        <=> [Libs!Confining!Next]_<<Libs!Phase, Symbols>>
  BY <1>1, <1>2, <1>4
<1>6. LibsProofs!ImplementsConfinement => Libs!ImplementsConfinement
  BY <1>3, <1>5, PTL DEF LibsProofs!ImplementsConfinement, Libs!ImplementsConfinement,
     LibsProofs!Confining!Spec, Libs!Confining!Spec
<1>7. LibsProofs!Spec => LibsProofs!ImplementsConfinement
  BY LibsProofs!PatchingConfines, LibsCapabilities, LibsImages
<1> QED BY <1>6, <1>7, LibsSameSpec, CapMgrImplementsRelocationPatch, PTL
------------------------------------------------------------------------------
(* The compartment: the same specification. *)

(* The constants are as the theorems assume.                               *)
LEMMA SetupCapabilities == SetupProofs!CapabilityAssumption
BY PartsAssumption DEF Libs!CapabilityAssumption, SetupProofs!CapabilityAssumption,
       Libs!Address, SetupProofs!Address

LEMMA SetupSetup == SetupProofs!SetupAssumption
BY PartsAssumption DEF Setup!SetupAssumption, SetupProofs!SetupAssumption, Setup!Address,
       SetupProofs!Address, Setup!Cap, SetupProofs!Cap, Setup!Proper, SetupProofs!Proper,
       Setup!Within, SetupProofs!Within, Setup!MmapSize, SetupProofs!MmapSize,
       Setup!kCompartmentSealerPerms, SetupProofs!kCompartmentSealerPerms,
       Setup!kCompartmentExecPerms, SetupProofs!kCompartmentExecPerms

(* What is derived and sealed, operator by operator.                       *)
LEMMA SetupSameValues ==
  /\ \A m, size : Setup!TopOfStack(m, size) = SetupProofs!TopOfStack(m, size)
  /\ \A id : Setup!SealerCap(id) = SetupProofs!SealerCap(id)
  /\ \A f : Setup!RestrictedEntry(f) = SetupProofs!RestrictedEntry(f)
  /\ \A o, s : Setup!Seal(o, s) = SetupProofs!Seal(o, s)
  /\ \A o, s : Setup!Unseal(o, s) = SetupProofs!Unseal(o, s)
  /\ \A c, kind : Setup!ObjectOf(c, kind) = SetupProofs!ObjectOf(c, kind)
  /\ \A c : Setup!MmapSize(c) = SetupProofs!MmapSize(c)
<1>1. \A c, a : Setup!AddressSet(c, a) = SetupProofs!AddressSet(c, a)
  BY DEF Setup!AddressSet, SetupProofs!AddressSet
<1>2. \A c, len : Setup!BoundsSet(c, len) = SetupProofs!BoundsSet(c, len)
  BY DEF Setup!BoundsSet, SetupProofs!BoundsSet
<1>3. \A c, perms : Setup!PermsAnd(c, perms) = SetupProofs!PermsAnd(c, perms)
  BY DEF Setup!PermsAnd, SetupProofs!PermsAnd
<1>4. \A c : Setup!SentryCreate(c) = SetupProofs!SentryCreate(c)
  BY DEF Setup!SentryCreate, SetupProofs!SentryCreate
<1>5. \A c, offset : Setup!OffsetSet(c, offset) = SetupProofs!OffsetSet(c, offset)
  BY <1>1 DEF Setup!OffsetSet, SetupProofs!OffsetSet
<1>6. \A m, p : Setup!SetBoundsAndAddress(m, p) = SetupProofs!SetBoundsAndAddress(m, p)
  BY <1>1, <1>2, <1>5 DEF Setup!SetBoundsAndAddress, SetupProofs!SetBoundsAndAddress
<1>7. \A c, len : Setup!BoundsRounded(c, len) = SetupProofs!BoundsRounded(c, len)
  BY DEF Setup!BoundsRounded, SetupProofs!BoundsRounded
<1>8. \A c, base, len : Setup!SetBounds(c, base, len) = SetupProofs!SetBounds(c, base, len)
  BY <1>1, <1>7 DEF Setup!SetBounds, SetupProofs!SetBounds
<1>9. \A c : Setup!MmapSize(c) = SetupProofs!MmapSize(c)
  BY DEF Setup!MmapSize, SetupProofs!MmapSize
<1>10. \A m, size : Setup!TopOfStack(m, size) = SetupProofs!TopOfStack(m, size)
  BY <1>1, <1>3, <1>8 DEF Setup!TopOfStack, SetupProofs!TopOfStack, Setup!Mapped,
         SetupProofs!Mapped, Setup!kCompartmentDataPerms, SetupProofs!kCompartmentDataPerms
<1>11. \A id : Setup!SealerCap(id) = SetupProofs!SealerCap(id)
  BY <1>1, <1>3, <1>8 DEF Setup!SealerCap, SetupProofs!SealerCap,
         Setup!kCompartmentSealerPerms, SetupProofs!kCompartmentSealerPerms
<1>12. \A f : Setup!RestrictedEntry(f) = SetupProofs!RestrictedEntry(f)
  BY <1>3, <1>4, <1>6 DEF Setup!RestrictedEntry, SetupProofs!RestrictedEntry,
         Setup!kCompartmentExecPerms, SetupProofs!kCompartmentExecPerms
<1>13. \A o, s : Setup!Seal(o, s) = SetupProofs!Seal(o, s)
  BY DEF Setup!Seal, SetupProofs!Seal, Setup!Authorises, SetupProofs!Authorises
<1>14. \A o, s : Setup!Unseal(o, s) = SetupProofs!Unseal(o, s)
  BY DEF Setup!Unseal, SetupProofs!Unseal, Setup!Authorises, SetupProofs!Authorises
<1>15. \A c, kind : Setup!ObjectOf(c, kind) = SetupProofs!ObjectOf(c, kind)
  BY DEF Setup!ObjectOf, SetupProofs!ObjectOf
<1> QED BY <1>10, <1>11, <1>12, <1>13, <1>14, <1>15, <1>9

(* The steps.                                                              *)
LEMMA SetupSameNext == Setup!Next <=> SetupProofs!Next
<1> USE DEF Setup!objects, SetupProofs!objects, Setup!registers, SetupProofs!registers,
            Setup!None, SetupProofs!None, Setup!Invalid, SetupProofs!Invalid, Setup!NoObject,
            SetupProofs!NoObject, Setup!CompartmentEntryPoint,
            SetupProofs!CompartmentEntryPoint, Setup!Found, SetupProofs!Found
<1>1. \A c : Setup!CCompartment(c) <=> SetupProofs!CCompartment(c)
  BY SetupSameValues DEF Setup!CCompartment, SetupProofs!CCompartment, Setup!CreateStack,
         SetupProofs!CreateStack, Setup!Free, SetupProofs!Free
<1>2. \A c : Setup!EntryPointNotFound(c) <=> SetupProofs!EntryPointNotFound(c)
  BY SetupSameValues DEF Setup!EntryPointNotFound, SetupProofs!EntryPointNotFound,
         Setup!CreateStack, SetupProofs!CreateStack, Setup!Free, SetupProofs!Free
<1>3. \A c, f : Setup!CallCompartmentFunction(c, f) <=> SetupProofs!CallCompartmentFunction(c, f)
  BY SetupSameValues DEF Setup!CallCompartmentFunction, SetupProofs!CallCompartmentFunction
<1>4. \A c, f : Setup!FunctionNotFound(c, f) <=> SetupProofs!FunctionNotFound(c, f)
  BY DEF Setup!FunctionNotFound, SetupProofs!FunctionNotFound
<1>5. Setup!CompartmentSwitchEntry <=> SetupProofs!CompartmentSwitchEntry
  BY SetupSameValues DEF Setup!CompartmentSwitchEntry, SetupProofs!CompartmentSwitchEntry
<1>6. Setup!CompartmentUnwrap <=> SetupProofs!CompartmentUnwrap
  BY DEF Setup!CompartmentUnwrap, SetupProofs!CompartmentUnwrap, Setup!HasRoom,
         SetupProofs!HasRoom
<1>7. Setup!CompartmentServiceCallback <=> SetupProofs!CompartmentServiceCallback
  BY SetupSameValues DEF Setup!CompartmentServiceCallback,
         SetupProofs!CompartmentServiceCallback
<1>8. Setup!CompartmentServiceHandler <=> SetupProofs!CompartmentServiceHandler
  BY DEF Setup!CompartmentServiceHandler, SetupProofs!CompartmentServiceHandler
<1>9. Setup!CompartmentSwitchReturn <=> SetupProofs!CompartmentSwitchReturn
  BY DEF Setup!CompartmentSwitchReturn, SetupProofs!CompartmentSwitchReturn
<1>10. Setup!MainExit <=> SetupProofs!MainExit
  BY DEF Setup!MainExit, SetupProofs!MainExit
<1>11. Setup!Ended <=> SetupProofs!Ended
  BY DEF Setup!Ended, SetupProofs!Ended, Setup!vars, SetupProofs!vars
<1> HIDE DEF Setup!objects, SetupProofs!objects, Setup!registers, SetupProofs!registers,
             Setup!None, SetupProofs!None, Setup!Invalid, SetupProofs!Invalid, Setup!NoObject,
             SetupProofs!NoObject, Setup!CompartmentEntryPoint,
             SetupProofs!CompartmentEntryPoint, Setup!Found, SetupProofs!Found
<1> QED BY <1>1, <1>2, <1>3, <1>4, <1>5, <1>6, <1>7, <1>8, <1>9, <1>10, <1>11
       DEF Setup!Next, SetupProofs!Next

(* So their theorems are of both.                                          *)
LEMMA SetupSameSpec == Setup!Spec <=> SetupProofs!Spec
<1>1. Setup!Init <=> SetupProofs!Init
  BY DEF Setup!Init, SetupProofs!Init, Setup!None, SetupProofs!None, Setup!Invalid,
         SetupProofs!Invalid, Setup!NoObject, SetupProofs!NoObject
<1>2. Setup!vars = SetupProofs!vars
  BY DEF Setup!vars, SetupProofs!vars, Setup!objects, SetupProofs!objects, Setup!registers,
         SetupProofs!registers
<1>3. (Setup!vars)' = (SetupProofs!vars)'
  BY DEF Setup!vars, SetupProofs!vars, Setup!objects, SetupProofs!objects, Setup!registers,
         SetupProofs!registers
<1>4. [Setup!Next]_(Setup!vars) <=> [SetupProofs!Next]_(SetupProofs!vars)
  BY <1>2, <1>3, SetupSameNext
<1> QED BY <1>1, <1>4, PTL DEF Setup!Spec, SetupProofs!Spec
------------------------------------------------------------------------------
(* The compartment in the program. *)

LEMMA SetupUnchanged ==
  ASSUME UNCHANGED setup
  PROVE  UNCHANGED Setup!vars
BY DEF setup, calls, Setup!vars, Setup!objects, Setup!registers

(* Each of main's five calls is of a function that the compartment has.    *)
LEMMA CalledFunction ==
  ASSUME call \in 1 .. 5
  PROVE  FunctionName[call] \in Function
BY CommandAssumption DEF FunctionName

(* A step of the program is one of the compartment, or leaves it alone.    *)
LEMMA SetupNext ==
  ASSUME [Next]_vars
  PROVE  [Setup!Next]_(Setup!vars)
<1>1. CASE CCompartment \/ EntryPointNotFound
  BY <1>1 DEF CCompartment, EntryPointNotFound, Setup!Next
<1>2. CASE CallApiFn \/ FunctionNotFound
  BY <1>2, CalledFunction DEF CallApiFn, FunctionNotFound, Calling, Setup!Next
<1>3. CASE Switch \/ FunctionReturns \/ FunctionCallsService \/ ServiceDone
  BY <1>3 DEF Switch, FunctionReturns, FunctionCallsService, ServiceDone, Setup!Next
<1>4. CASE lib_restore_and_end
  BY <1>4 DEF lib_restore_and_end, CallsDone, Setup!Next
<1>5. CASE \/ StartOptions \/ TakeOption \/ print_help \/ set_capmgr_log_level
           \/ LibsStep \/ FunctionFaults \/ FunctionWrites
  BY <1>5, SetupUnchanged
     DEF StartOptions, TakeOption, print_help, set_capmgr_log_level, LibsStep, FunctionFaults,
         FunctionWrites
<1>6. CASE UNCHANGED vars
  BY <1>6, SetupUnchanged DEF vars
<1> QED BY <1>1, <1>2, <1>3, <1>4, <1>5, <1>6 DEF Next, Step, Calls

(* main makes the compartment before it calls it, calls functions that the *)
(* interface has, one at a time, and each of the steps that the example    *)
(* takes for a call, a service or a return is one of the switcher.         *)
THEOREM CapMgrImplementsSetup == Spec => Setup!Spec
<1>1. Init => Setup!Init
  BY DEF Init
<1> QED BY <1>1, SetupNext, PTL DEF Spec, Setup!Spec

(* The program calls nothing in a compartment whose set-up failed, and no  *)
(* call faults on its way to the function if it had what it needs.         *)
THEOREM CapMgrRunsPrepared ==
  Spec => [](Setup!RunsOnlyPrepared /\ Setup!FaultOnlyIfUnprepared)
<1>1. \A c, f : Setup!Prepared(c, f) <=> SetupProofs!Prepared(c, f)
  BY DEF Setup!Prepared, SetupProofs!Prepared, Setup!SealerFits, SetupProofs!SealerFits,
         Setup!SealerRange, SetupProofs!SealerRange,
         Setup!Within, SetupProofs!Within, Setup!CompartmentEntryPoint,
         SetupProofs!CompartmentEntryPoint
<1>2. SetupProofs!RunsOnlyPrepared => Setup!RunsOnlyPrepared
  BY <1>1 DEF Setup!RunsOnlyPrepared, SetupProofs!RunsOnlyPrepared
<1>3. SetupProofs!FaultOnlyIfUnprepared => Setup!FaultOnlyIfUnprepared
  BY <1>1 DEF Setup!FaultOnlyIfUnprepared, SetupProofs!FaultOnlyIfUnprepared
<1>4. SetupProofs!Spec => []SetupProofs!RunsOnlyPrepared /\ []SetupProofs!FaultOnlyIfUnprepared
  BY SetupProofs!SetupRunsOnlyPrepared, SetupProofs!SetupFaultOnlyIfUnprepared,
     SetupCapabilities, SetupSetup
<1> QED BY <1>2, <1>3, <1>4, SetupSameSpec, CapMgrImplementsSetup, PTL

(* In the program too the compartment is given code of its library without *)
(* executive state, its own stack, and a sealer for the identifiers that   *)
(* the constructor asks for.                                               *)
THEOREM CapMgrPrivileges == Spec => []Setup!Privileges
<1>1. SetupProofs!Privileges => Setup!Privileges
  BY DEF Setup!Privileges, SetupProofs!Privileges, Setup!RestrictedTo,
         SetupProofs!RestrictedTo, Setup!Within, SetupProofs!Within, Setup!Executive,
         SetupProofs!Executive, Setup!CompartmentEntryPoint, SetupProofs!CompartmentEntryPoint,
         Setup!None, SetupProofs!None, Setup!kCompartmentSealerPerms,
         SetupProofs!kCompartmentSealerPerms, Setup!SealsWithin, SetupProofs!SealsWithin,
         Setup!SealerRange, SetupProofs!SealerRange, Setup!Authorises, SetupProofs!Authorises
<1>2. SetupProofs!Spec => []SetupProofs!Privileges
  BY SetupProofs!SetupPrivileges, SetupCapabilities, SetupSetup
<1> QED BY <1>1, <1>2, SetupSameSpec, CapMgrImplementsSetup, PTL
------------------------------------------------------------------------------
(* The example: the same steps. *)

(* The constants are as the theorems assume.                               *)
LEMMA ExampleConstants == ExampleProofs!ExampleAssumption
BY PartsAssumption DEF Example!ExampleAssumption, ExampleProofs!ExampleAssumption,
       Example!Input, ExampleProofs!Input, Example!Struct, ExampleProofs!Struct, Example!Int32,
       ExampleProofs!Int32

LEMMA ExampleSameInit == Example!Init <=> ExampleProofs!Init
BY DEF Example!Init, ExampleProofs!Init, Example!set_level, ExampleProofs!set_level,
       Example!NoData, ExampleProofs!NoData, Example!None, ExampleProofs!None,
       Example!LOG_LEVEL_VERBOSE, ExampleProofs!LOG_LEVEL_VERBOSE

(* What the functions compute.                                             *)
LEMMA ExampleSameValues ==
  /\ Example!Arguments = ExampleProofs!Arguments
  /\ \A a, b : Example!Sum(a, b) = ExampleProofs!Sum(a, b)
  /\ \A b : Example!strlen(b) = ExampleProofs!strlen(b)
  /\ \A str : Example!CString(str) = ExampleProofs!CString(str)
  /\ \A chars, sz : Example!Position(chars, sz) = ExampleProofs!Position(chars, sz)
  /\ \A n, half : Example!Signed(n, half) = ExampleProofs!Signed(n, half)
<1>1. \A n, half : Example!Signed(n, half) = ExampleProofs!Signed(n, half)
  BY DEF Example!Signed, ExampleProofs!Signed
<1>2. Example!Arguments = ExampleProofs!Arguments
  BY <1>1 DEF Example!Arguments, ExampleProofs!Arguments, Example!set_level,
         ExampleProofs!set_level, Example!add, ExampleProofs!add, Example!copy,
         ExampleProofs!copy, Example!print, ExampleProofs!print
<1>3. \A a, b : Example!Sum(a, b) = ExampleProofs!Sum(a, b)
  BY DEF Example!Sum, ExampleProofs!Sum, Example!Int32, ExampleProofs!Int32
<1>4. \A b : Example!strlen(b) = ExampleProofs!strlen(b)
  BY DEF Example!strlen, ExampleProofs!strlen
<1>5. \A str : Example!CString(str) = ExampleProofs!CString(str)
  BY DEF Example!CString, ExampleProofs!CString
<1>6. \A chars, sz : Example!Position(chars, sz) = ExampleProofs!Position(chars, sz)
  BY DEF Example!Position, ExampleProofs!Position, Example!ToSize, ExampleProofs!ToSize
<1> QED BY <1>1, <1>2, <1>3, <1>4, <1>5, <1>6

(* The steps.                                                              *)
LEMMA ExampleSameStep == Example!Step <=> ExampleProofs!Step
<1> USE DEF Example!Returns, ExampleProofs!Returns, Example!Runs, ExampleProofs!Runs,
            Example!Fault, ExampleProofs!Fault, Example!None, ExampleProofs!None,
            Example!NoData, ExampleProofs!NoData, Example!Api, ExampleProofs!Api,
            Example!set_level, ExampleProofs!set_level, Example!add, ExampleProofs!add,
            Example!copy, ExampleProofs!copy, Example!print, ExampleProofs!print, Example!dump,
            ExampleProofs!dump
<1>1. Example!CallApiFn <=> ExampleProofs!CallApiFn
  BY ExampleSameValues DEF Example!CallApiFn, ExampleProofs!CallApiFn
<1>2. Example!example_set_compartment_debug_level
        <=> ExampleProofs!example_set_compartment_debug_level
  BY DEF Example!example_set_compartment_debug_level,
         ExampleProofs!example_set_compartment_debug_level, Example!LevelAccepted,
         ExampleProofs!LevelAccepted, Example!LOG_LEVEL_FATAL, ExampleProofs!LOG_LEVEL_FATAL,
         Example!LOG_LEVEL_VERBOSE, ExampleProofs!LOG_LEVEL_VERBOSE
<1>3. Example!example_add_two_numbers <=> ExampleProofs!example_add_two_numbers
  BY ExampleSameValues DEF Example!example_add_two_numbers,
         ExampleProofs!example_add_two_numbers
<1>4. Example!example_copy_string_to_heap <=> ExampleProofs!example_copy_string_to_heap
  BY DEF Example!example_copy_string_to_heap, ExampleProofs!example_copy_string_to_heap,
         Example!SizeToCopy, ExampleProofs!SizeToCopy
<1>5. Example!CopyString <=> ExampleProofs!CopyString
  BY ExampleSameValues DEF Example!CopyString, ExampleProofs!CopyString
<1>6. Example!NoMemory <=> ExampleProofs!NoMemory
  BY DEF Example!NoMemory, ExampleProofs!NoMemory
<1>7. Example!example_print_heap_string_and_free
        <=> ExampleProofs!example_print_heap_string_and_free
  BY ExampleSameValues DEF Example!example_print_heap_string_and_free,
         ExampleProofs!example_print_heap_string_and_free, Example!PutBack,
         ExampleProofs!PutBack
<1>8. Example!PrintReturns <=> ExampleProofs!PrintReturns
  BY DEF Example!PrintReturns, ExampleProofs!PrintReturns
<1>9. Example!CapabilityFault <=> ExampleProofs!CapabilityFault
  BY ExampleSameValues DEF Example!CapabilityFault, ExampleProofs!CapabilityFault,
         Example!BeyondBounds, ExampleProofs!BeyondBounds
<1>10. Example!example_dump_struct <=> ExampleProofs!example_dump_struct
  BY ExampleSameValues DEF Example!example_dump_struct, ExampleProofs!example_dump_struct
<1>11. Example!cheri_malloc <=> ExampleProofs!cheri_malloc
  BY DEF Example!cheri_malloc, ExampleProofs!cheri_malloc
<1>12. Example!cheri_free <=> ExampleProofs!cheri_free
  BY DEF Example!cheri_free, ExampleProofs!cheri_free, Example!Freed, ExampleProofs!Freed
<1>13. Example!MainEnds <=> ExampleProofs!MainEnds
  BY DEF Example!MainEnds, ExampleProofs!MainEnds
<1> HIDE DEF Example!Returns, ExampleProofs!Returns, Example!Runs, ExampleProofs!Runs,
             Example!Fault, ExampleProofs!Fault, Example!None, ExampleProofs!None,
             Example!NoData, ExampleProofs!NoData, Example!Api, ExampleProofs!Api,
             Example!set_level, ExampleProofs!set_level, Example!add, ExampleProofs!add,
             Example!copy, ExampleProofs!copy, Example!print, ExampleProofs!print,
             Example!dump, ExampleProofs!dump
<1> QED BY <1>1, <1>2, <1>3, <1>4, <1>5, <1>6, <1>7, <1>8, <1>9, <1>10, <1>11, <1>12, <1>13
       DEF Example!Step, ExampleProofs!Step, Example!Service, ExampleProofs!Service
=============================================================================
