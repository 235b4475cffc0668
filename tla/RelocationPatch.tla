--------------------------- MODULE RelocationPatch ---------------------------
(***************************************************************************)
(* The life of the compartment's libraries in the capability manager: main *)
(* opens the library, parses the link map, and patches every capability    *)
(* that the dynamic linker resolved so that it loses the executive         *)
(* permission; the compartment runs; before it exits, main reverts the     *)
(* patches.  (main.cpp, capmgr/cap_relocs.)                                *)
(*                                                                         *)
(* Memory is seen as the slots that relocations refer to, each holding a   *)
(* capability and lying in a page, and the protection of the pages.        *)
(***************************************************************************)
EXTENDS Capability, Sequences, FiniteSets

CONSTANTS
  Slot, Page,
  PageOf,         \* PageOf[s]: the page of slot s
  Images,         \* what the dynamic linker may leave for ParseLinkMap to find
  fixup_cap,      \* AT_CHERI_EXEC_RW_CAP
  MaxWrites       \* bound: slots that the compartment writes

Prot   == {"read", "write", "exec"}
(* Mutant: code stays executable while it is patched.                      *)
RWX    == {"read", "write", "exec"}
RW     == {"read", "write"}

(* A relocation table: absent (a tag of it is not in the dynamic section), *)
(* malformed (element size, or size not a multiple of it), or its entries. *)
Table  == [status : {"ok", "absent", "malformed"}, relocs : Seq([slot : Slot, fix : BOOLEAN])]

(* An entry of the link map.  name = 0 is the blank name of the            *)
(* application; loader: l_real is another entry; keep: the slots in the    *)
(* ranges of DT_INIT, DT_FINI, DT_INIT_ARRAY and DT_FINI_ARRAY.            *)
Entry  == [name : Nat, loader : BOOLEAN, phdrs : BOOLEAN, dynamic : Nat,
           load : Seq([flags : SUBSET Prot, pages : SUBSET Page]),
           tables : [1 .. 3 -> Table], keep : SUBSET Slot]
PltRel == 1  \* CPltRel, then CRelDyn and CRelaDyn

Image  == [static : BOOLEAN,             \* CAPMGR_BUILT_STATIC_ENABLE
           map : Seq(Entry),             \* the link map
           mem : [Slot -> Cap],          \* relocated by the dynamic linker
           prot : [Page -> SUBSET Prot]]

ASSUME ImageAssumption ==
  /\ PageOf \in [Slot -> Page]
  /\ Images \subseteq Image
  /\ fixup_cap \in Cap /\ fixup_cap.tag /\ ~fixup_cap.sentry
  /\ \A image \in Images :
       /\ \A s \in Slot : Proper(image.mem[s])
       (* No page is writable and executable, before or as the headers say. *)
       /\ \A p \in Page : ~({"write", "exec"} \subseteq image.prot[p])
       /\ \A e \in 1 .. Len(image.map) : \A b \in 1 .. Len(image.map[e].load) :
            ~({"write", "exec"} \subseteq image.map[e].load[b].flags)
       (* A library relocates slots of its own PT_LOAD blocks.             *)
       /\ \A e \in 1 .. Len(image.map) : \A t \in 1 .. 3 :
            \A r \in 1 .. Len(image.map[e].tables[t].relocs) :
              \E b \in 1 .. Len(image.map[e].load) :
                PageOf[image.map[e].tables[t].relocs[r].slot] \in image.map[e].load[b].pages
       (* Blocks lie in pages of their own.                                *)
       /\ \A d, e \in 1 .. Len(image.map) :
            \A a \in 1 .. Len(image.map[d].load), b \in 1 .. Len(image.map[e].load) :
              (image.map[d].load[a].pages \cap image.map[e].load[b].pages # {})
                => d = e /\ a = b
       (* The keys of m_so_map are distinct.                               *)
       /\ \A d, e \in 1 .. Len(image.map) :
            image.map[d].name = image.map[e].name => d = e

VARIABLES
  image,          \* what this process has: fixed by the build and the linker
  pc,             \* the code that runs next
  mem,            \* the capabilities in the slots
  prot,           \* the protection of the pages
  link_map,       \* the entry that ParseLinkMap is at
  m_so_map,       \* the entries it has loaded
  makeRestricted, \* the pass: patch (TRUE) or revert
  left,           \* entries of m_so_map that the pass has still to do
  so,             \* the one that it is at
  block,          \* the PT_LOAD block that ProtectAllBlocks is at
  result,         \* its result so far
  table, reloc,   \* the table, and in it the relocation, that PatchCaps is at
  ret,            \* what main returns
  written         \* history: the slots that the compartment has written

parsed     == <<link_map, m_so_map>>
pass       == <<makeRestricted, left, so>>
protecting == <<block, result>>
patching   == <<table, reloc>>
progress   == <<parsed, pass, protecting, patching>>
vars     == <<image, pc, mem, prot, progress, ret, written>>

Map == image.map

Init ==
  /\ image \in Images
  /\ pc = "dlopen"
  /\ mem = image.mem
  /\ prot = image.prot
  /\ link_map = 1 /\ m_so_map = {}
  /\ makeRestricted = TRUE /\ left = {} /\ so = 1
  /\ block = 1 /\ result = TRUE
  /\ table = 1 /\ reloc = 1
  /\ ret = -1
  /\ written = {}

(* An exception that nothing catches.                                      *)
Throw == pc' = "terminated" /\ UNCHANGED <<image, mem, prot, progress, ret, written>>
------------------------------------------------------------------------------
(* CCompartmentLibs: the constructor and ParseLinkMap.                     *)

Dlopen ==
  /\ pc = "dlopen"
  /\ pc' = "ParseLinkMap"
  /\ UNCHANGED <<image, mem, prot, progress, ret, written>>

DlopenFails == pc = "dlopen" /\ Throw

(* Mutant: l_real is not looked at, and the dynamic linker is loaded too.  *)
RejectedNotLoader(e) == Map[e].name = 0 \/ ~Map[e].phdrs
Rejected(e) == Map[e].name = 0 \/ Map[e].loader \/ ~Map[e].phdrs

(* CSharedObject::Load and the constructor of CPltRel, the only one of the *)
(* tables to read the dynamic section there, throw.                        *)
Loadable(e) == Map[e].dynamic = 1 /\ Map[e].tables[PltRel].status # "absent"

ParseEntry ==
  /\ pc = "ParseLinkMap"
  /\ link_map <= Len(Map)
  /\ \/ Rejected(link_map) /\ UNCHANGED m_so_map
     \/ ~Rejected(link_map) /\ Loadable(link_map) /\ m_so_map' = m_so_map \cup {link_map}
  /\ link_map' = link_map + 1
  /\ UNCHANGED <<image, pc, mem, prot, pass, protecting, patching, ret, written>>

LoadThrows ==
  /\ pc = "ParseLinkMap"
  /\ link_map <= Len(Map)
  /\ ~Rejected(link_map) /\ ~Loadable(link_map)
  /\ Throw

NothingLoaded ==
  /\ pc = "ParseLinkMap"
  /\ link_map > Len(Map)
  /\ m_so_map = {}
  /\ Throw

(* Mutant: the pass is over all of the link map.                           *)
StartPassOverLinkMap(restricted) ==
  /\ makeRestricted' = restricted
  /\ left' = 1 .. Len(Map)
  /\ pc' = "DoAllLibCapFixups"
  /\ UNCHANGED so

(* DoAllLibCapFixups(restricted): over m_so_map, in the order of the names. *)
StartPass(restricted) ==
  /\ makeRestricted' = restricted
  /\ left' = m_so_map
  /\ pc' = "DoAllLibCapFixups"
  /\ UNCHANGED so

(* DumpRelocTables, if the user asks for it, checks each table of each      *)
(* library as PatchCaps will.                                              *)
MalformedIn(loaded) == \E e \in loaded, t \in 1 .. 3 : Map[e].tables[t].status = "malformed"
DumpThrows ==
  /\ pc = "ParseLinkMap"
  /\ link_map > Len(Map)
  /\ m_so_map # {}
  /\ MalformedIn(m_so_map)
  /\ Throw

LibsLoaded ==
  /\ pc = "ParseLinkMap"
  /\ link_map > Len(Map)
  /\ m_so_map # {}
  /\ StartPass(TRUE)
  /\ UNCHANGED <<image, mem, prot, parsed, protecting, patching, ret, written>>
------------------------------------------------------------------------------
(* DoAllLibCapFixups and, for each library, DoLibCapFixups.                *)

(* DoAllLibCapFixups returns TRUE to lib_load_and_fix: main goes on to     *)
(* run the compartment; or to lib_restore_and_end: main goes on to delete. *)
PassDone ==
  /\ pc = "DoAllLibCapFixups"
  /\ left = {}
  /\ pc' = (IF makeRestricted THEN "running" ELSE "delete")
  /\ ret' = (IF makeRestricted THEN ret ELSE 0)
  /\ UNCHANGED <<image, mem, prot, progress, written>>

(* Mutant: main does not look at the result of lib_load_and_fix.           *)
AfterFailureIgnored == IF makeRestricted THEN "running" ELSE "delete"
AfterFailure        == IF makeRestricted THEN "exit" ELSE "delete"

(* A library failed: no further one is done.  main returns -1, at once if  *)
(* it was patching.                                                        *)
PassFails ==
  /\ pc = "failed"
  /\ pc' = AfterFailure
  /\ ret' = -1
  /\ left' = {}
  /\ UNCHANGED <<image, mem, prot, parsed, makeRestricted, so, protecting, patching, written>>

DoLibCapFixups ==
  /\ pc = "DoAllLibCapFixups"
  /\ so' \in left
  /\ \A e \in left : Map[so'].name <= Map[e].name
  /\ block' = 1 /\ result' = TRUE
  /\ pc' = "unprotect"
  /\ UNCHANGED <<image, mem, prot, parsed, makeRestricted, left, patching, ret, written>>

(* Mutant: restoring a block makes it writable again.                      *)
RequiredAlwaysRW(b) == RW
Required(b)         == IF pc = "restore" THEN b.flags ELSE RW

(* ProtectBlock: one call of mprotect, which may fail.                     *)
Mprotect(b, required) ==
  prot' = [p \in Page |-> IF p \in b.pages THEN required ELSE prot[p]]

ProtectBlock ==
  /\ pc \in {"unprotect", "restore"}
  /\ block <= Len(Map[so].load)
  /\ LET b == Map[so].load[block]
     IN  \/ /\ Mprotect(b, Required(b))
            /\ UNCHANGED result
         \/ /\ result' = FALSE                  \* keep going on error
            /\ UNCHANGED prot
  /\ block' = block + 1
  /\ UNCHANGED <<image, pc, mem, parsed, pass, patching, ret, written>>

ProtectFails ==
  /\ pc \in {"unprotect", "restore"}
  /\ block > Len(Map[so].load)
  /\ ~result
  /\ pc' = "failed"
  /\ UNCHANGED <<image, mem, prot, progress, ret, written>>

(* Mutant: the result of ProtectAllBlocks is ignored.                      *)
UnprotectedResultIgnored ==
  /\ pc = "unprotect"
  /\ block > Len(Map[so].load)
  /\ table' = 1 /\ reloc' = 1
  /\ pc' = "PatchCaps"
  /\ UNCHANGED <<image, mem, prot, parsed, pass, protecting, ret, written>>

Unprotected ==
  /\ pc = "unprotect"
  /\ block > Len(Map[so].load)
  /\ result
  /\ table' = 1 /\ reloc' = 1
  /\ pc' = "PatchCaps"
  /\ UNCHANGED <<image, mem, prot, parsed, pass, protecting, ret, written>>

(* Mutant: the loop over the libraries does not advance.                   *)
RestoredNoAdvance ==
  /\ pc = "restore"
  /\ block > Len(Map[so].load)
  /\ result
  /\ pc' = "DoAllLibCapFixups"
  /\ UNCHANGED <<image, mem, prot, parsed, pass, protecting, patching, ret, written>>

Restored ==
  /\ pc = "restore"
  /\ block > Len(Map[so].load)
  /\ result
  /\ left' = left \ {so}
  /\ pc' = "DoAllLibCapFixups"
  /\ UNCHANGED <<image, mem, prot, parsed, makeRestricted, so, protecting, patching, ret, written>>
------------------------------------------------------------------------------
(* CRelocationTable::PatchCaps                                             *)

CurrentTable == Map[so].tables[table]
CurrentReloc == CurrentTable.relocs[reloc]

(* Mutant: the revert pass does not give the permission back.              *)
DeriveFixupValueNoRevert(c, restricted) ==
  IF restricted THEN DeriveFromCap(fixup_cap, c, {}, {"executive"})
                ELSE DeriveFromCap(fixup_cap, c, {}, {})

(* Mutant: the passes are mixed up.                                        *)
DeriveFixupValueSwapped(c, restricted) ==
  IF restricted THEN DeriveFromCap(fixup_cap, c, {"executive"}, {})
                ELSE DeriveFromCap(fixup_cap, c, {}, {"executive"})

DeriveFixupValue(c, restricted) ==
  IF restricted THEN DeriveFromCap(fixup_cap, c, {}, {"executive"})
                ELSE DeriveFromCap(fixup_cap, c, {"executive"}, {})

(* A relocation type that may need it, in a slot that is not to be kept,   *)
(* which holds a capability.                                               *)
NeedsFixup == CurrentReloc.fix /\ CurrentReloc.slot \notin Map[so].keep
                               /\ mem[CurrentReloc.slot].tag

InTable == /\ pc = "PatchCaps"
           /\ table <= 3
           /\ CurrentTable.status = "ok"
           /\ reloc <= Len(CurrentTable.relocs)

PatchCap ==
  /\ InTable
  /\ NeedsFixup
  /\ mem' = [mem EXCEPT ![CurrentReloc.slot] = DeriveFixupValue(@, makeRestricted)]
  /\ reloc' = reloc + 1
  /\ UNCHANGED <<image, pc, prot, parsed, pass, protecting, table, ret, written>>

SkipReloc ==
  /\ InTable
  /\ ~NeedsFixup
  /\ reloc' = reloc + 1
  /\ UNCHANGED <<image, pc, mem, prot, parsed, pass, protecting, table, ret, written>>

(* At the end of a table; an absent one throws std::out_of_range, which    *)
(* DoLibCapFixups catches.                                                 *)
NextTable ==
  /\ pc = "PatchCaps"
  /\ table <= 3
  /\ \/ CurrentTable.status = "absent"
     \/ CurrentTable.status = "ok" /\ reloc > Len(CurrentTable.relocs)
  /\ table' = table + 1 /\ reloc' = 1
  /\ UNCHANGED <<image, pc, mem, prot, parsed, pass, protecting, ret, written>>

(* CCapMgrException of CheckAndGetRange                                    *)
MalformedTable ==
  /\ pc = "PatchCaps"
  /\ table <= 3
  /\ CurrentTable.status = "malformed"
  /\ Throw

TablesDone ==
  /\ pc = "PatchCaps"
  /\ table > 3
  /\ block' = 1 /\ result' = TRUE
  /\ pc' = "restore"
  /\ UNCHANGED <<image, mem, prot, parsed, pass, patching, ret, written>>
------------------------------------------------------------------------------
(* main, from the proxy to its return.                                     *)

(* The code of the compartment stores to a variable that was relocated:    *)
(* no capability, or one that it got from another symbol.                  *)
CompartmentWrites(s) ==
  /\ pc = "running"
  /\ Cardinality(written) < MaxWrites
  /\ "write" \in prot[PageOf[s]]
  /\ \E c \in {mem[t] : t \in Slot} \cup {[mem[s] EXCEPT !.tag = FALSE]} :
       ~Executive(c) /\ mem' = [mem EXCEPT ![s] = c]
  /\ written' = written \cup {s}
  /\ UNCHANGED <<image, pc, prot, progress, ret>>

(* CCompartmentException of the constructor or of a call.                  *)
RunThrows == pc = "running" /\ Throw

(* lib_restore_and_end: nothing to do in the static build.                 *)
EndStatic ==
  /\ pc = "running"
  /\ image.static
  /\ pc' = "exit" /\ ret' = 0
  /\ UNCHANGED <<image, mem, prot, progress, written>>

Revert ==
  /\ pc = "running"
  /\ ~image.static
  /\ StartPass(FALSE)
  /\ UNCHANGED <<image, mem, prot, parsed, protecting, patching, ret, written>>

(* delete plibs: dlclose()                                                 *)
DeleteLibs ==
  /\ pc = "delete"
  /\ pc' = "exit"
  /\ m_so_map' = {}
  /\ UNCHANGED <<image, mem, prot, link_map, pass, protecting, patching, ret, written>>

Ended == pc \in {"exit", "terminated"} /\ UNCHANGED vars

Step ==
  \/ Dlopen \/ DlopenFails \/ ParseEntry \/ LoadThrows \/ NothingLoaded \/ DumpThrows \/ LibsLoaded
  \/ PassDone \/ PassFails \/ DoLibCapFixups
  \/ ProtectBlock \/ ProtectFails \/ Unprotected \/ Restored
  \/ PatchCap \/ SkipReloc \/ NextTable \/ MalformedTable \/ TablesDone
  \/ RunThrows \/ EndStatic \/ Revert \/ DeleteLibs

Next == Step \/ (\E s \in Slot : CompartmentWrites(s)) \/ Ended

Spec == Init /\ [][Next]_vars

(* One thread: what it can do it does, and the compartment returns.        *)
FairSpec == Spec /\ WF_vars(Step)
------------------------------------------------------------------------------
(* Properties. *)

Code == {"dlopen", "ParseLinkMap", "DoAllLibCapFixups", "unprotect", "PatchCaps",
         "restore", "failed", "running", "delete", "exit", "terminated"}

(* Types.                                                                  *)
TypeOK ==
  /\ image \in Images
  /\ pc \in Code
  /\ mem \in [Slot -> Cap]
  /\ prot \in [Page -> SUBSET Prot]
  /\ link_map \in 1 .. Len(Map) + 1
  /\ m_so_map \subseteq 1 .. Len(Map)
  /\ makeRestricted \in BOOLEAN
  /\ left \subseteq m_so_map /\ so \in Nat
  /\ block \in Nat \ {0} /\ result \in BOOLEAN
  /\ table \in 1 .. 4 /\ reloc \in Nat \ {0}
  /\ ret \in {-1, 0}
  /\ written \subseteq Slot

(* The slots that relocations of entry e ask to have patched.              *)
FixSlots(e) ==
  {s \in Slot \ Map[e].keep : \E t \in 1 .. 3 :
     /\ Map[e].tables[t].status = "ok"
     /\ \E r \in 1 .. Len(Map[e].tables[t].relocs) :
          Map[e].tables[t].relocs[r] = [slot |-> s, fix |-> TRUE]}
IsLib(e)   == Map[e].name # 0 /\ ~Map[e].loader /\ Map[e].phdrs
PagesOf(e) == UNION {Map[e].load[b].pages : b \in 1 .. Len(Map[e].load)}

(* While the compartment runs, no relocated symbol of any of its libraries *)
(* grants the executive state: main gets there only when every table of    *)
(* every library has been patched.                                         *)
Confined ==
  pc = "running" =>
    \A e \in 1 .. Len(Map) : IsLib(e) => \A s \in FixSlots(e) : ~Executive(mem[s])

(* At no time, in spite of mprotect failing on some of the blocks, is a    *)
(* page writable and executable.                                           *)
NeverWritableAndExecutable ==
  \A p \in Page : ~({"write", "exec"} \subseteq prot[p])

(* PatchCaps stores to pages that are writable: DoLibCapFixups gives up    *)
(* when ProtectAllBlocks fails on any block, so the store does not fault.  *)
StoreNeverFaults ==
  InTable /\ NeedsFixup => "write" \in prot[PageOf[CurrentReloc.slot]]

(* The compartment runs, and main ends well, with every block of every     *)
(* library protected as its header says.                                   *)
ProtectionFollowsHeaders ==
  pc = "running" \/ (pc = "exit" /\ ret = 0) =>
    \A e \in 1 .. Len(Map) : IsLib(e) =>
      \A b \in 1 .. Len(Map[e].load) : \A p \in Map[e].load[b].pages :
        prot[p] = Map[e].load[b].flags

(* Neither pass touches what the executive state goes on using: the pages  *)
(* of the dynamic linker and of whatever else is not loaded, and the slots *)
(* that the linker calls library initialisation and termination through.   *)
TouchesLoadedLibs ==
  /\ \A p \in Page : prot'[p] # prot[p] =>
       \E e \in 1 .. Len(Map) : IsLib(e) /\ p \in PagesOf(e)
  /\ pc # "running" => \A s \in Slot : mem'[s] # mem[s] =>
       \E e \in 1 .. Len(Map) : IsLib(e) /\ s \in FixSlots(e)
OnlySymbolsOfLoadedLibs == [][TouchesLoadedLibs]_vars

(* Patching a capability only takes permissions from it.  Bounds, address  *)
(* and sentry are derived again from fixup_cap: the address comes out as   *)
(* it was, the bounds within those of fixup_cap; and if the capability     *)
(* lies within fixup_cap, all of it, with the tag still set.               *)
TakesPermissions ==
  pc = "PatchCaps" /\ makeRestricted => \A s \in Slot :
    mem'[s] # mem[s] =>
      /\ mem'[s].perms \subseteq mem[s].perms \ {"executive"}
      /\ mem'[s].addr = mem[s].addr /\ Within(mem'[s], fixup_cap)
      /\ Within(mem[s], fixup_cap) =>
           mem'[s] = [mem[s] EXCEPT !.perms = mem'[s].perms]
PatchOnlyRestricts == [][TakesPermissions]_vars

(* fixup_cap, which "should have range of ALL shared objects"              *)
(* (CRelocationTable.h:43), can build c again; one outside its range, or   *)
(* with a permission that it lacks, is lost in the first pass.             *)
Rebuildable(c) ==
  c.tag => Within(c, fixup_cap) /\ c.perms \subseteq fixup_cap.perms

(* Slot s holds what the linker put there, or the same capability with the *)
(* executive permission: the revert pass gives it to every capability that *)
(* it comes to, whether or not patching had taken it.                      *)
Reverted(s) ==
  LET c == image.mem[s]
  IN  \/ mem[s] = c
      \/ c.tag /\ mem[s] = [c EXCEPT !.perms = @ \cup {"executive"}]

(* Reverting undoes patching, except for the executive permission of what  *)
(* never had it: when main ends well, a symbol that the compartment did    *)
(* not write, and that fixup_cap can build, has its value, bounds, sentry  *)
(* and other permissions again, and the executive one if it had it.        *)
RoundTrip ==
  pc \in {"delete", "exit"} /\ ret = 0 /\ ~image.static =>
    \A s \in Slot \ written : Rebuildable(image.mem[s]) => Reverted(s)

(* main.cpp:82, "Revert capability relocation fixups...": all of them, and *)
(* nothing else, so that each symbol is exactly what it was before.        *)
RevertIsExact ==
  pc \in {"delete", "exit"} /\ ret = 0 /\ ~image.static =>
    \A s \in Slot \ written : Rebuildable(image.mem[s]) => mem[s] = image.mem[s]

(* No step of either pass leaves as much to do as there was: it            *)
(* gets main further; or, where main stays in a loop, there is an entry of *)
(* the link map, a library, a call of mprotect, a table or a relocation    *)
(* less to come.  After a failure too nothing is tried again.              *)
Further ==
  CASE pc = "dlopen"  -> 6 [] pc = "ParseLinkMap" -> 5
    [] pc = "running" -> 3 [] pc = "delete"       -> 1 [] pc \in {"exit", "terminated"} -> 0
    [] OTHER -> IF makeRestricted THEN 4 ELSE 2
InLibrary ==
  CASE pc = "DoAllLibCapFixups" -> 4 [] pc = "unprotect" -> 3 [] pc = "PatchCaps" -> 2
    [] pc = "restore" -> 1 [] OTHER -> 0
Entries  == Len(Map) + 1 - link_map
Mappings == Len(Map[so].load) + 1 - block
Relocs   == Len(CurrentTable.relocs) + 1 - reloc
Advances ==
  \/ Further' < Further
  \/ /\ Further' = Further
     /\ \/ pc = "ParseLinkMap" /\ 0 <= Entries' /\ Entries' < Entries
        \/ pc # "ParseLinkMap" /\ left' \subseteq left /\ left' # left
        \/ /\ pc # "ParseLinkMap" /\ left' = left
           /\ \/ InLibrary' < InLibrary
              \/ pc \in {"unprotect", "restore"} /\ 0 <= Mappings' /\ Mappings' < Mappings
              \/ pc = "PatchCaps" /\ table' \in table + 1 .. 4
              \/ pc = "PatchCaps" /\ table' = table /\ 0 <= Relocs' /\ Relocs' < Relocs
EachStepAdvances == [][Step => Advances]_vars

(* However loading and patching go, the program comes to an end.           *)
Ends == <>(pc \in {"exit", "terminated"})

(* The passes, with the failures on their way, do what Confinement says:   *)
(* patching frees ever more symbols of the executive state and never gives *)
(* it back, the compartment does not get it, reverting comes after.        *)
LibSymbols == UNION {FixSlots(e) : e \in {d \in 1 .. Len(Map) : IsLib(d)}}
Phase ==
  IF pc \in {"exit", "terminated"} THEN "ended"
  ELSE IF pc = "running" THEN "running"
  ELSE IF makeRestricted THEN "patching" ELSE "reverting"
Confining == INSTANCE Confinement WITH
  Symbols   <- Slot,
  phase     <- Phase,
  executive <- {s \in LibSymbols : Executive(mem[s])}
ImplementsConfinement == Confining!Spec

(* Design document 3.2.1 "Library Cleanup": just ahead of application exit *)
(* the patching is reversed, since the linker runs the termination code of *)
(* the libraries in executive state; main.cpp:72.                          *)
TeardownExecutive ==
  pc = "exit" /\ ~image.static =>
    \A e \in 1 .. Len(Map) : IsLib(e) =>
      \A s \in FixSlots(e) \ written :
        Executive(image.mem[s]) /\ Rebuildable(image.mem[s]) => Executive(mem[s])

(* CSharedObject.cpp:207, "Make LOAD blocks restored to original access    *)
(* settings": those that they had before they were made writable.          *)
OriginalProtection == pc = "running" => prot = image.prot
=============================================================================
