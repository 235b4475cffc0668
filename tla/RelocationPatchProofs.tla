------------------------ MODULE RelocationPatchProofs ------------------------
(* Theorems of RelocationPatch, for every link map, memory and fixup_cap.   *)
EXTENDS RelocationPatch, CapabilityProofs

USE DEF AfterFailure, Required

Pass == {"DoAllLibCapFixups", "unprotect", "PatchCaps", "restore", "failed"}
InLib == {"unprotect", "PatchCaps", "restore"}

(* Where the two loops of a pass stand, and what main knows by then.       *)
Structure ==
  /\ TypeOK
  /\ \A e \in m_so_map : ~Rejected(e)
  /\ pc = "dlopen" => link_map = 1
  /\ pc \in {"dlopen", "ParseLinkMap"} =>
       \A e \in 1 .. Len(Map) : e < link_map /\ ~Rejected(e) => e \in m_so_map
  /\ pc \in Pass \cup {"running"} =>
       \A e \in 1 .. Len(Map) : ~Rejected(e) => e \in m_so_map
  /\ pc \in InLib => so \in left
  /\ pc = "restore" => table = 4
  /\ pc = "running" => makeRestricted /\ left = {}
  /\ pc \in {"dlopen", "ParseLinkMap"} => makeRestricted
  /\ pc \notin {"delete", "exit"} => ret = -1
  /\ pc \in {"delete", "exit"} => left = {}
  /\ pc = "delete" => ~makeRestricted

LEMMA Elements ==
  ASSUME NEW S, NEW s \in Seq(S)
  PROVE  Len(s) \in Nat /\ \A i \in 1 .. Len(s) : s[i] \in S
OBVIOUS

LEMMA MapType ==
  ASSUME TypeOK
  PROVE  /\ image \in Image
         /\ Map \in Seq(Entry)
         /\ Len(Map) \in Nat
         /\ \A e \in 1 .. Len(Map) : Map[e] \in Entry
<1>1. image \in Image
  BY ImageAssumption DEF TypeOK
<1>2. Map \in Seq(Entry)
  BY <1>1 DEF Image, Map
<1> QED BY <1>1, <1>2

LEMMA BlockType ==
  ASSUME TypeOK, NEW e \in 1 .. Len(Map)
  PROVE  /\ Len(Map[e].load) \in Nat
         /\ \A b \in 1 .. Len(Map[e].load) :
              Map[e].load[b] \in [flags : SUBSET Prot, pages : SUBSET Page]
<1>1. Map[e] \in Entry
  BY MapType
<1>2. Map[e].load \in Seq([flags : SUBSET Prot, pages : SUBSET Page])
  BY <1>1 DEF Entry
<1> QED BY <1>2, Elements, Zenon

LEMMA TableType ==
  ASSUME TypeOK, NEW e \in 1 .. Len(Map), NEW t \in 1 .. 3
  PROVE  /\ Len(Map[e].tables[t].relocs) \in Nat
         /\ \A r \in 1 .. Len(Map[e].tables[t].relocs) :
              Map[e].tables[t].relocs[r] \in [slot : Slot, fix : BOOLEAN]
<1>1. Map[e] \in Entry
  BY MapType
<1>2. Map[e].tables[t] \in Table
  BY <1>1 DEF Entry
<1>3. Map[e].tables[t].relocs \in Seq([slot : Slot, fix : BOOLEAN])
  BY <1>2 DEF Table
<1> QED BY <1>3, Elements, Zenon

(* What DeriveFixupValue does to any capability.                           *)
LEMMA FixupValue ==
  ASSUME NEW c \in Cap, NEW restricted \in BOOLEAN
  PROVE  /\ DeriveFixupValue(c, restricted) \in Cap
         /\ DeriveFixupValue(c, restricted).perms \subseteq
              (c.perms \cup (IF restricted THEN {} ELSE {"executive"}))
         /\ restricted => "executive" \notin DeriveFixupValue(c, restricted).perms
<1>1. /\ {} \in SUBSET Perm /\ {"executive"} \in SUBSET Perm
      /\ fixup_cap \in Cap
  BY CapabilityAssumption, ImageAssumption
<1>2. CASE restricted
  <2>1. DeriveFixupValue(c, restricted) = DeriveFromCap(fixup_cap, c, {}, {"executive"})
    BY <1>2 DEF DeriveFixupValue
  <2>2. DeriveFromCap(fixup_cap, c, {}, {"executive"}) \in Cap
    BY <1>1, DeriveType
  <2>3. DeriveFromCap(fixup_cap, c, {}, {"executive"}).perms
          = fixup_cap.perms \cap ((c.perms \cup {}) \ {"executive"})
    BY <1>1, DerivePerms
  <2> QED BY <1>2, <2>1, <2>2, <2>3
<1>3. CASE ~restricted
  <2>1. DeriveFixupValue(c, restricted) = DeriveFromCap(fixup_cap, c, {"executive"}, {})
    BY <1>3 DEF DeriveFixupValue
  <2>2. DeriveFromCap(fixup_cap, c, {"executive"}, {}) \in Cap
    BY <1>1, DeriveType
  <2>3. DeriveFromCap(fixup_cap, c, {"executive"}, {}).perms
          = fixup_cap.perms \cap ((c.perms \cup {"executive"}) \ {})
    BY <1>1, DerivePerms
  <2> QED BY <1>3, <2>1, <2>2, <2>3
<1> QED BY <1>2, <1>3

(* The slot of the relocation that PatchCaps is at.                        *)
LEMMA RelocInTable ==
  ASSUME Structure, InTable
  PROVE  /\ so \in 1 .. Len(Map) /\ table \in 1 .. 3
         /\ reloc \in 1 .. Len(CurrentTable.relocs)
         /\ CurrentReloc \in [slot : Slot, fix : BOOLEAN]
         /\ CurrentReloc.slot \in Slot
         /\ mem[CurrentReloc.slot] \in Cap
<1>1. so \in 1 .. Len(Map) /\ table \in 1 .. 3
  BY DEF Structure, TypeOK, InTable, InLib
<1>2. TypeOK
  BY DEF Structure
<1>3. Len(CurrentTable.relocs) \in Nat
  BY <1>1, <1>2, TableType DEF CurrentTable
<1>4. reloc \in 1 .. Len(CurrentTable.relocs)
  BY <1>2, <1>3 DEF InTable, TypeOK
<1>5. CurrentReloc \in [slot : Slot, fix : BOOLEAN]
  BY <1>1, <1>2, <1>4, TableType DEF CurrentReloc, CurrentTable
<1>6. CurrentReloc.slot \in Slot
  BY <1>5
<1> QED BY <1>1, <1>2, <1>4, <1>5, <1>6 DEF TypeOK

LEMMA InitStructure == Init => Structure
<1> SUFFICES ASSUME Init PROVE Structure
  OBVIOUS
<1>1. image \in Images /\ image \in Image
  BY ImageAssumption DEF Init
<1>2. Len(Map) \in Nat /\ mem \in [Slot -> Cap] /\ prot \in [Page -> SUBSET Prot]
  BY <1>1 DEF Image, Map, Init
<1>3. TypeOK
  BY <1>1, <1>2 DEF Init, TypeOK, Code
<1> QED BY <1>2, <1>3 DEF Structure, Init, Pass, InLib

(* Every step keeps the structure: the actions are grouped by the function *)
(* of the code that they belong to.                                        *)
LEMMA NextStructure == Structure /\ [Next]_vars => Structure'
<1> SUFFICES ASSUME Structure, [Next]_vars PROVE Structure'
  OBVIOUS
<1> USE DEF vars, progress, parsed, pass, protecting, patching, Code
<1>t. TypeOK
  BY DEF Structure
<1>m. Len(Map) \in Nat
  BY <1>t, MapType
<1>i. image' = image /\ Map' = Map
  BY DEF Map, Next, Step, Init, Throw, Dlopen, DlopenFails, ParseEntry, LoadThrows,
         NothingLoaded, DumpThrows, LibsLoaded, PassDone, PassFails, DoLibCapFixups, ProtectBlock,
         ProtectFails, Unprotected, Restored, PatchCap, SkipReloc, NextTable,
         MalformedTable, TablesDone, RunThrows, EndStatic, Revert, DeleteLibs,
         CompartmentWrites, Ended
<1>r. \A e : Rejected(e)' <=> Rejected(e)
  BY <1>i DEF Rejected
<1>1. CASE DlopenFails \/ LoadThrows \/ NothingLoaded \/ DumpThrows \/ MalformedTable \/ RunThrows
  <2>1. pc' = "terminated" /\ UNCHANGED <<image, mem, prot, progress, ret, written>>
    BY <1>1 DEF DlopenFails, LoadThrows, NothingLoaded, DumpThrows, MalformedTable, RunThrows, Throw
  <2>2. pc \notin {"delete", "exit"}
    BY <1>1 DEF DlopenFails, LoadThrows, NothingLoaded, DumpThrows, MalformedTable, RunThrows
  <2>3. TypeOK'
    BY <2>1, <1>t, <1>i DEF TypeOK
  <2> QED BY <2>1, <2>2, <2>3, <1>r DEF Structure, Pass, InLib
<1>2. CASE Dlopen
  <2>1. TypeOK'
    BY <1>2, <1>t, <1>i DEF TypeOK, Dlopen
  <2> QED BY <1>2, <2>1, <1>r, <1>i DEF Structure, Dlopen, Pass, InLib
<1>3. CASE ParseEntry
  <2>a. link_map' \in 1 .. Len(Map) + 1
    BY <1>3, <1>t, <1>m DEF TypeOK, ParseEntry
  <2>b. m_so_map' \subseteq 1 .. Len(Map) /\ left' \subseteq m_so_map'
    <3>1. link_map \in 1 .. Len(Map)
      BY <1>3, <1>t, <1>m DEF TypeOK, ParseEntry
    <3>2. left' = left /\ m_so_map' \in {m_so_map, m_so_map \cup {link_map}}
      BY <1>3 DEF ParseEntry
    <3> QED BY <3>1, <3>2, <1>t DEF TypeOK
  <2>1. TypeOK'
    BY <1>3, <1>t, <1>i, <2>a, <2>b DEF TypeOK, ParseEntry
  <2>2. \A e \in m_so_map' : ~Rejected(e)
    BY <1>3 DEF ParseEntry, Structure
  <2>3. \A e \in 1 .. Len(Map) : e < link_map' /\ ~Rejected(e) => e \in m_so_map'
    BY <1>3, <1>t DEF ParseEntry, Structure, TypeOK
  <2> QED BY <1>3, <2>1, <2>2, <2>3, <1>r, <1>i DEF Structure, ParseEntry, Pass, InLib
<1>4. CASE LibsLoaded
  <2>1. TypeOK'
    BY <1>4, <1>t, <1>i DEF TypeOK, LibsLoaded, StartPass
  <2>2. \A e \in 1 .. Len(Map) : ~Rejected(e) => e \in m_so_map
    BY <1>4, <1>t, <1>m DEF LibsLoaded, Structure, TypeOK
  <2> QED BY <1>4, <2>1, <2>2, <1>r, <1>i DEF Structure, LibsLoaded, StartPass, Pass, InLib
<1>5. CASE PassDone
  <2>1. TypeOK'
    BY <1>5, <1>t, <1>i DEF TypeOK, PassDone
  <2> QED BY <1>5, <2>1, <1>t, <1>r, <1>i DEF Structure, PassDone, Pass, InLib, TypeOK
<1>6. CASE PassFails
  <2>1. TypeOK'
    BY <1>6, <1>t, <1>i DEF TypeOK, PassFails
  <2> QED BY <1>6, <2>1, <1>t, <1>r, <1>i DEF Structure, PassFails, Pass, InLib, TypeOK
<1>7. CASE DoLibCapFixups
  <2>1. TypeOK'
    BY <1>7, <1>t, <1>i DEF TypeOK, DoLibCapFixups
  <2> QED BY <1>7, <2>1, <1>r, <1>i DEF Structure, DoLibCapFixups, Pass, InLib
<1>8. CASE ProtectBlock
  <2>1. so \in 1 .. Len(Map) /\ block \in 1 .. Len(Map[so].load)
    BY <1>8, <1>t, BlockType DEF ProtectBlock, Structure, InLib, TypeOK
  <2>2. Map[so].load[block].flags \subseteq Prot
    BY <2>1, <1>t, BlockType
  <2>3. prot' \in [Page -> SUBSET Prot]
    BY <2>2, <1>8, <1>t DEF ProtectBlock, Mprotect, TypeOK, RW, Prot
  <2>a. result' \in BOOLEAN /\ block' \in Nat \ {0}
    <3>1. result' \in {result, FALSE}
      BY <1>8, Zenon DEF ProtectBlock
    <3>2. block' = block + 1
      BY <1>8 DEF ProtectBlock
    <3>3. result \in BOOLEAN /\ block \in Nat \ {0}
      BY <1>t DEF TypeOK
    <3>4. result' \in BOOLEAN
      BY <3>1, <3>3, Zenon
    <3> QED BY <3>2, <3>3, <3>4
  <2>4. TypeOK'
    BY <1>8, <2>3, <2>a, <1>t, <1>i DEF TypeOK, ProtectBlock
  <2> QED BY <1>8, <2>4, <1>r, <1>i DEF Structure, ProtectBlock, Pass, InLib
<1>9. CASE ProtectFails
  <2>1. TypeOK'
    BY <1>9, <1>t, <1>i DEF TypeOK, ProtectFails
  <2> QED BY <1>9, <2>1, <1>r, <1>i DEF Structure, ProtectFails, Pass, InLib
<1>10. CASE Unprotected
  <2>1. TypeOK'
    BY <1>10, <1>t, <1>i DEF TypeOK, Unprotected
  <2> QED BY <1>10, <2>1, <1>r, <1>i DEF Structure, Unprotected, Pass, InLib
<1>11. CASE Restored
  <2>1. TypeOK'
    BY <1>11, <1>t, <1>i DEF TypeOK, Restored
  <2> QED BY <1>11, <2>1, <1>r, <1>i DEF Structure, Restored, Pass, InLib
<1>12. CASE PatchCap
  <2>1. mem[CurrentReloc.slot] \in Cap /\ makeRestricted \in BOOLEAN
    BY <1>12, <1>t, RelocInTable DEF PatchCap, TypeOK
  <2>2. DeriveFixupValue(mem[CurrentReloc.slot], makeRestricted) \in Cap
    BY <2>1, FixupValue
  <2>3. mem' \in [Slot -> Cap]
    BY <2>2, <1>12, <1>t DEF PatchCap, TypeOK
  <2>4. TypeOK'
    BY <1>12, <2>3, <1>t, <1>i DEF TypeOK, PatchCap
  <2> QED BY <1>12, <2>4, <1>r, <1>i DEF Structure, PatchCap, InTable, Pass, InLib
<1>13. CASE SkipReloc
  <2>1. TypeOK'
    BY <1>13, <1>t, <1>i DEF TypeOK, SkipReloc
  <2> QED BY <1>13, <2>1, <1>r, <1>i DEF Structure, SkipReloc, InTable, Pass, InLib
<1>14. CASE NextTable
  <2>1. TypeOK'
    BY <1>14, <1>t, <1>i DEF TypeOK, NextTable
  <2> QED BY <1>14, <2>1, <1>r, <1>i DEF Structure, NextTable, Pass, InLib
<1>15. CASE TablesDone
  <2>1. TypeOK' /\ table = 4
    BY <1>15, <1>t, <1>i DEF TypeOK, TablesDone
  <2> QED BY <1>15, <2>1, <1>r, <1>i DEF Structure, TablesDone, Pass, InLib
<1>16. CASE \E s \in Slot : CompartmentWrites(s)
  <2>1. PICK s \in Slot : CompartmentWrites(s)
    BY <1>16
  <2>2. mem[s] \in Cap /\ [mem[s] EXCEPT !.tag = FALSE] \in Cap
    BY <1>t DEF TypeOK, Cap
  <2>a. PICK c \in {mem[t] : t \in Slot} \cup {[mem[s] EXCEPT !.tag = FALSE]} :
          mem' = [mem EXCEPT ![s] = c]
    BY <2>1 DEF CompartmentWrites
  <2>b. c \in Cap
    BY <2>a, <2>2, <1>t DEF TypeOK
  <2>3. mem' \in [Slot -> Cap]
    BY <2>a, <2>b, <1>t DEF TypeOK
  <2>4. TypeOK'
    BY <2>1, <2>3, <1>t, <1>i DEF TypeOK, CompartmentWrites
  <2> QED BY <2>1, <2>4, <1>r, <1>i DEF Structure, CompartmentWrites, Pass, InLib
<1>17. CASE EndStatic
  <2>1. TypeOK'
    BY <1>17, <1>t, <1>i DEF TypeOK, EndStatic
  <2> QED BY <1>17, <2>1, <1>r, <1>i DEF Structure, EndStatic, Pass, InLib
<1>18. CASE Revert
  <2>1. TypeOK'
    BY <1>18, <1>t, <1>i DEF TypeOK, Revert, StartPass
  <2> QED BY <1>18, <2>1, <1>r, <1>i DEF Structure, Revert, StartPass, Pass, InLib
<1>19. CASE DeleteLibs
  <2>1. TypeOK'
    BY <1>19, <1>t, <1>i DEF TypeOK, DeleteLibs, Structure
  <2> QED BY <1>19, <2>1, <1>t, <1>r, <1>i DEF Structure, DeleteLibs, Pass, InLib, TypeOK
<1>20. CASE UNCHANGED vars
  <2>1. TypeOK'
    BY <1>20, <1>t, <1>i DEF TypeOK
  <2> QED BY <1>20, <2>1, <1>r, <1>i DEF Structure, Pass, InLib
<1> QED
  BY <1>1, <1>2, <1>3, <1>4, <1>5, <1>6, <1>7, <1>8, <1>9, <1>10, <1>11, <1>12, <1>13,
     <1>14, <1>15, <1>16, <1>17, <1>18, <1>19, <1>20 DEF Next, Step, Ended

LEMMA AlwaysStructure == Spec => []Structure
BY InitStructure, NextStructure, PTL DEF Spec

(* Everything keeps its type, whatever defects the link map has: for       *)
(* instance the deletion of the libraries leaves no loop over them behind. *)
THEOREM Typing == Spec => []TypeOK
<1>1. Structure => TypeOK
  BY DEF Structure
<1> QED BY <1>1, AlwaysStructure, PTL
------------------------------------------------------------------------------
(* The slots of the current library that PatchCaps has been at.            *)
Visited ==
  {s \in Slot \ Map[so].keep : \E t \in 1 .. 3 :
     /\ Map[so].tables[t].status = "ok"
     /\ \E r \in 1 .. Len(Map[so].tables[t].relocs) :
          /\ t < table \/ (t = table /\ r < reloc)
          /\ Map[so].tables[t].relocs[r] = [slot |-> s, fix |-> TRUE]}

LEMMA NoneVisited ==
  ASSUME table' = 1, reloc' = 1
  PROVE  Visited' = {}
<1> SUFFICES ASSUME NEW s \in Visited' PROVE FALSE
  OBVIOUS
<1>1. PICK t \in 1 .. 3 : \E r \in 1 .. Len(Map'[so'].tables[t].relocs) : t < 1 \/ (t = 1 /\ r < 1)
  BY DEF Visited
<1> QED BY <1>1

LEMMA RelocVisited ==
  ASSUME Structure, InTable, reloc' = reloc + 1, UNCHANGED <<image, so, table>>,
         NEW s \in Visited', s \notin Visited
  PROVE  s = CurrentReloc.slot /\ CurrentReloc.fix /\ s \notin Map[so].keep
<1>0. PICK t \in 1 .. 3 :
        /\ Map[so].tables[t].status = "ok"
        /\ \E r \in 1 .. Len(Map[so].tables[t].relocs) :
             /\ (t < table \/ (t = table /\ r < reloc + 1))
             /\ Map[so].tables[t].relocs[r] = [slot |-> s, fix |-> TRUE]
  BY DEF Visited, Map
<1>1. PICK r \in 1 .. Len(Map[so].tables[t].relocs) :
        /\ (t < table \/ (t = table /\ r < reloc + 1))
        /\ Map[so].tables[t].relocs[r] = [slot |-> s, fix |-> TRUE]
  BY <1>0
<1>2. s \in Slot /\ s \notin Map[so].keep
  BY DEF Visited, Map
<1>3. ~(t < table \/ (t = table /\ r < reloc))
  BY <1>0, <1>1, <1>2 DEF Visited
<1>4. reloc \in Nat /\ table \in Nat
  BY DEF Structure, TypeOK
<1>5. t = table /\ r = reloc
  BY <1>1, <1>3, <1>4
<1> QED BY <1>1, <1>2, <1>5 DEF CurrentReloc, CurrentTable

LEMMA TableVisited ==
  ASSUME Structure, NextTable
  PROVE  Visited' \subseteq Visited
<1> SUFFICES ASSUME NEW s \in Visited' PROVE s \in Visited
  OBVIOUS
<1>a. UNCHANGED <<image, so>> /\ table' = table + 1
  BY DEF NextTable, pass
<1>b. reloc \in Nat /\ table \in Nat
  BY DEF Structure, TypeOK
<1>0. PICK t \in 1 .. 3 :
        /\ Map[so].tables[t].status = "ok"
        /\ \E r \in 1 .. Len(Map[so].tables[t].relocs) :
             /\ (t < table + 1 \/ (t = table + 1 /\ r < reloc'))
             /\ Map[so].tables[t].relocs[r] = [slot |-> s, fix |-> TRUE]
  BY <1>a DEF Visited, Map
<1>1. PICK r \in 1 .. Len(Map[so].tables[t].relocs) :
        /\ (t < table + 1 \/ (t = table + 1 /\ r < reloc'))
        /\ Map[so].tables[t].relocs[r] = [slot |-> s, fix |-> TRUE]
  BY <1>0
<1>2. s \in Slot /\ s \notin Map[so].keep
  BY <1>a DEF Visited, Map
<1>3. reloc' = 1
  BY DEF NextTable
<1>4. t < table \/ t = table
  BY <1>1, <1>3, <1>b
<1>5. t = table => r < reloc
  <2> SUFFICES ASSUME t = table PROVE r < reloc
    OBVIOUS
  <2>1. reloc > Len(Map[so].tables[t].relocs)
    BY <1>0 DEF NextTable, CurrentTable
  <2>2. so \in 1 .. Len(Map)
    BY DEF Structure, TypeOK, NextTable, InLib
  <2>3. Len(Map[so].tables[t].relocs) \in Nat
    BY <2>2, TableType DEF Structure
  <2> QED BY <2>1, <2>3, <1>b
<1> QED BY <1>0, <1>1, <1>2, <1>4, <1>5 DEF Visited

LEMMA AllVisited ==
  ASSUME table = 4
  PROVE  Visited = FixSlots(so)
BY DEF Visited, FixSlots

(* Confined, as the pass establishes it slot by slot.                      *)
Confinement ==
  /\ makeRestricted /\ pc \in Pass \cup {"running"} =>
       \A e \in m_so_map \ left : \A s \in FixSlots(e) : ~Executive(mem[s])
  /\ makeRestricted /\ pc \in {"PatchCaps", "restore"} =>
       \A s \in Visited : ~Executive(mem[s])

LEMMA NextConfinement ==
  Structure /\ Structure' /\ Confinement /\ [Next]_vars => Confinement'
<1> SUFFICES ASSUME Structure, Structure', Confinement, [Next]_vars PROVE Confinement'
  OBVIOUS
<1> USE DEF vars, progress, parsed, pass, protecting, patching
<1>i. image' = image /\ Map' = Map
  BY DEF Map, Next, Step, Init, Throw, Dlopen, DlopenFails, ParseEntry, LoadThrows,
         NothingLoaded, DumpThrows, LibsLoaded, PassDone, PassFails, DoLibCapFixups, ProtectBlock,
         ProtectFails, Unprotected, Restored, PatchCap, SkipReloc, NextTable,
         MalformedTable, TablesDone, RunThrows, EndStatic, Revert, DeleteLibs,
         CompartmentWrites, Ended
<1>f. \A e : FixSlots(e)' = FixSlots(e)
  BY <1>i DEF FixSlots
<1>1. CASE DlopenFails \/ LoadThrows \/ NothingLoaded \/ DumpThrows \/ MalformedTable \/ RunThrows
           \/ Dlopen \/ ParseEntry \/ EndStatic \/ DeleteLibs \/ PassFails \/ Revert
  <2>1. pc' \notin Pass \cup {"running"} \/ makeRestricted' = FALSE
    BY <1>1 DEF DlopenFails, LoadThrows, NothingLoaded, DumpThrows,
                MalformedTable, RunThrows, Throw,
                Dlopen, ParseEntry, EndStatic, DeleteLibs, PassFails, Revert, StartPass, Pass
  <2> QED BY <2>1 DEF Confinement, Pass
<1>2. CASE LibsLoaded
  BY <1>2 DEF LibsLoaded, StartPass, Confinement
<1>3. CASE PassDone \/ DoLibCapFixups \/ ProtectFails
  BY <1>3, <1>f DEF PassDone, DoLibCapFixups, ProtectFails, Confinement, Pass
<1>4. CASE ProtectBlock
  <2>1. UNCHANGED <<image, pc, mem, m_so_map, left, so, makeRestricted, table, reloc>>
    BY <1>4 DEF ProtectBlock
  <2> QED BY <2>1, <1>f, <1>i DEF Confinement, Visited
<1>5. CASE Unprotected
  <2>1. Visited' = {}
    BY <1>5, NoneVisited DEF Unprotected
  <2> QED BY <1>5, <2>1, <1>f DEF Unprotected, Confinement, Pass
<1>6. CASE Restored
  <2>1. Visited = FixSlots(so)
    BY <1>6, AllVisited DEF Restored, Structure
  <2> QED BY <1>6, <2>1, <1>f DEF Restored, Confinement, Pass
<1>7. CASE PatchCap
  <2> DEFINE s == CurrentReloc.slot
  <2>1. InTable /\ s \in Slot /\ mem[s] \in Cap /\ makeRestricted \in BOOLEAN
    BY <1>7, RelocInTable DEF PatchCap, Structure, TypeOK
  <2>2. mem' = [mem EXCEPT ![s] = DeriveFixupValue(mem[s], makeRestricted)]
    BY <1>7 DEF PatchCap
  <2>3. makeRestricted => ~Executive(mem'[s])
    BY <2>1, <2>2, FixupValue DEF Structure, TypeOK, Executive
  <2>4. \A u \in Slot : u # s => mem'[u] = mem[u]
    BY <2>2 DEF Structure, TypeOK
  <2>5. \A u \in Visited' : u \in Visited \/ u = s
    BY <2>1, <1>7, RelocVisited DEF PatchCap
  <2>6. Visited \subseteq Slot /\ \A e : FixSlots(e) \subseteq Slot
    BY DEF Visited, FixSlots
  <2>7. pc = "PatchCaps" /\ UNCHANGED <<pc, m_so_map, left, makeRestricted>>
    BY <1>7 DEF PatchCap, InTable
  <2> HIDE DEF s
  <2> QED BY <2>3, <2>4, <2>5, <2>6, <2>7, <1>f DEF Confinement, Pass
<1>8. CASE SkipReloc
  <2>1. \A u \in Visited' : u \in Visited \/ ~Executive(mem[u])
    BY <1>8, RelocVisited DEF SkipReloc, NeedsFixup, Executive
  <2> QED BY <1>8, <2>1, <1>f DEF SkipReloc, InTable, Confinement, Pass
<1>9. CASE NextTable
  <2>1. Visited' \subseteq Visited
    BY <1>9, TableVisited
  <2> QED BY <1>9, <2>1, <1>f DEF NextTable, Confinement, Pass
<1>10. CASE TablesDone
  <2>1. Visited' = Visited
    BY <1>10, <1>i DEF TablesDone, Visited
  <2> QED BY <1>10, <2>1, <1>f DEF TablesDone, Confinement, Pass
<1>11. CASE \E s \in Slot : CompartmentWrites(s)
  <2>1. PICK s \in Slot : CompartmentWrites(s)
    BY <1>11
  <2>2. PICK c : ~Executive(c) /\ mem' = [mem EXCEPT ![s] = c]
    BY <2>1 DEF CompartmentWrites
  <2>3. \A u \in Slot : mem'[u] = mem[u] \/ ~Executive(mem'[u])
    BY <2>2 DEF Structure, TypeOK
  <2>4. \A e : FixSlots(e) \subseteq Slot
    BY DEF FixSlots
  <2>5. pc' = "running" /\ pc = "running" /\ UNCHANGED <<m_so_map, left, makeRestricted>>
    BY <2>1 DEF CompartmentWrites
  <2> QED BY <2>3, <2>4, <2>5, <1>f DEF Confinement, Pass
<1>12. CASE UNCHANGED vars
  BY <1>12, <1>f, <1>i DEF Confinement, Visited
<1> QED
  BY <1>1, <1>2, <1>3, <1>4, <1>5, <1>6, <1>7, <1>8, <1>9, <1>10, <1>11, <1>12
     DEF Next, Step, Ended

(* Whenever the compartment runs, no relocated symbol of its libraries     *)
(* grants the executive state.                                             *)
THEOREM AlwaysConfined == Spec => []Confined
<1>1. Init => Confinement
  BY DEF Init, Confinement, Pass
<1>2. Structure /\ Confinement => Confined
  BY DEF Structure, Confinement, Confined, IsLib, Rejected
<1> QED BY <1>1, <1>2, AlwaysStructure, NextConfinement, PTL DEF Spec
------------------------------------------------------------------------------
(* The blocks of entry e have the protection that their headers say.       *)
FollowsHeaders(e) ==
  \A b \in 1 .. Len(Map[e].load) : \A p \in Map[e].load[b].pages :
    prot[p] = Map[e].load[b].flags

(* Protection, block by block.                                             *)
Protection ==
  /\ NeverWritableAndExecutable
  /\ pc = "unprotect" /\ result =>
       \A b \in 1 .. Len(Map[so].load) :
         b < block => \A p \in Map[so].load[b].pages : "write" \in prot[p]
  /\ pc = "PatchCaps" =>
       \A b \in 1 .. Len(Map[so].load) : \A p \in Map[so].load[b].pages : "write" \in prot[p]
  /\ pc = "restore" /\ result =>
       \A b \in 1 .. Len(Map[so].load) :
         b < block => \A p \in Map[so].load[b].pages : prot[p] = Map[so].load[b].flags
  /\ pc \in Pass \cup {"running"} \/ (pc \in {"delete", "exit"} /\ ret = 0) =>
       \A e \in 1 .. Len(Map) : ~Rejected(e) /\ e \notin left => FollowsHeaders(e)

LEMMA BlocksApart ==
  ASSUME Structure, NEW d \in 1 .. Len(Map), NEW e \in 1 .. Len(Map),
         NEW a \in 1 .. Len(Map[d].load), NEW b \in 1 .. Len(Map[e].load),
         NEW p \in Map[d].load[a].pages, p \in Map[e].load[b].pages
  PROVE  d = e /\ a = b
<1>1. image \in Images
  BY DEF Structure, TypeOK
<1>2. Map[d].load[a].pages \cap Map[e].load[b].pages # {}
  OBVIOUS
<1>3. \A x, y \in 1 .. Len(image.map) :
        \A i \in 1 .. Len(image.map[x].load), j \in 1 .. Len(image.map[y].load) :
          (image.map[x].load[i].pages \cap image.map[y].load[j].pages # {}) => x = y /\ i = j
  BY <1>1, ImageAssumption, Zenon
<1> QED BY <1>2, <1>3, Zenon DEF Map

LEMMA ProtectBlockProtection ==
  ASSUME Structure, Structure', Protection, ProtectBlock
  PROVE  Protection'
<1> USE DEF progress, parsed, pass, protecting, patching
<1> DEFINE b == Map[so].load[block]
           required == IF pc = "restore" THEN b.flags ELSE RW
<1>1. /\ so \in 1 .. Len(Map) /\ so \in left /\ block \in 1 .. Len(Map[so].load)
      /\ block \in Nat /\ Len(Map[so].load) \in Nat
  BY BlockType DEF ProtectBlock, Structure, InLib, TypeOK
<1>2. b \in [flags : SUBSET Prot, pages : SUBSET Page]
  BY <1>1, BlockType DEF Structure
<1>3. /\ UNCHANGED <<image, pc, left, so, ret>> /\ Map' = Map /\ block' = block + 1
      /\ \A e : Rejected(e)' <=> Rejected(e)
      /\ pc \in {"unprotect", "restore"}
  BY DEF ProtectBlock, Map, Rejected
<1>4. prot \in [Page -> SUBSET Prot]
  BY DEF Structure, TypeOK
<1>5. CASE Mprotect(b, required) /\ UNCHANGED result
  <2>1. \A p \in Page : prot'[p] = IF p \in b.pages THEN required ELSE prot[p]
    BY <1>5 DEF Mprotect
  <2>2. ~({"write", "exec"} \subseteq required)
    <3>1. ~({"write", "exec"} \subseteq b.flags)
      <4>1. image \in Images
        BY DEF Structure, TypeOK
      <4>2. \A e \in 1 .. Len(image.map) : \A c \in 1 .. Len(image.map[e].load) :
              ~({"write", "exec"} \subseteq image.map[e].load[c].flags)
        BY <4>1, ImageAssumption, Zenon
      <4> QED BY <1>1, <4>2, Zenon DEF Map
    <3> QED BY <3>1 DEF RW
  <2>3. NeverWritableAndExecutable'
    BY <2>1, <2>2 DEF NeverWritableAndExecutable, Protection
  <2>4. \A c \in 1 .. Len(Map[so].load) : Map[so].load[c].pages \subseteq Page
    BY <1>1, BlockType DEF Structure
  <2>5. \A c \in 1 .. Len(Map[so].load) :
          c # block => \A p \in Map[so].load[c].pages : prot'[p] = prot[p]
    BY <2>1, <2>4, <1>1, BlocksApart
  <2>6. \A c \in 1 .. Len(Map[so].load) : c < block + 1 => c < block \/ c = block
    BY <1>1
  <2>7. \A p \in b.pages : prot'[p] = required
    BY <2>1, <1>2
  <2> HIDE DEF b
  <2>8. (pc = "unprotect" /\ result =>
           \A c \in 1 .. Len(Map[so].load) :
             c < block => \A p \in Map[so].load[c].pages : "write" \in prot[p])'
    <3> SUFFICES ASSUME pc = "unprotect", result,
                        NEW c \in 1 .. Len(Map[so].load), c < block + 1,
                        NEW p \in Map[so].load[c].pages
                 PROVE  "write" \in prot'[p]
      BY <1>3, <1>5
    <3>1. CASE c = block
      BY <3>1, <2>7 DEF RW, b
    <3>2. CASE c # block
      BY <3>2, <2>5, <2>6 DEF Protection
    <3> QED BY <3>1, <3>2
  <2>9. (pc = "restore" /\ result =>
           \A c \in 1 .. Len(Map[so].load) :
             c < block => \A p \in Map[so].load[c].pages : prot[p] = Map[so].load[c].flags)'
    <3> SUFFICES ASSUME pc = "restore", result,
                        NEW c \in 1 .. Len(Map[so].load), c < block + 1,
                        NEW p \in Map[so].load[c].pages
                 PROVE  prot'[p] = Map[so].load[c].flags
      BY <1>3, <1>5
    <3>1. CASE c = block
      BY <3>1, <2>7 DEF b
    <3>2. CASE c # block
      BY <3>2, <2>5, <2>6 DEF Protection
    <3> QED BY <3>1, <3>2
  <2>10. \A e \in 1 .. Len(Map) : ~Rejected(e) /\ e \notin left => FollowsHeaders(e)'
    <3> SUFFICES ASSUME NEW e \in 1 .. Len(Map), ~Rejected(e), e \notin left,
                        NEW c \in 1 .. Len(Map[e].load), NEW p \in Map[e].load[c].pages
                 PROVE  prot'[p] = Map[e].load[c].flags
      BY <1>3 DEF FollowsHeaders
    <3>1. FollowsHeaders(e)
      BY <1>3 DEF Protection, Pass
    <3>2. p \in Page
      BY BlockType DEF Structure
    <3>3. p \notin b.pages
      BY <1>1, BlocksApart DEF b
    <3> QED BY <3>1, <3>2, <3>3, <2>1 DEF FollowsHeaders
  <2> QED BY <1>3, <2>3, <2>8, <2>9, <2>10 DEF Protection, Pass
<1>6. CASE result' = FALSE /\ UNCHANGED prot
  <2>1. NeverWritableAndExecutable'
    BY <1>6 DEF NeverWritableAndExecutable, Protection
  <2>2. \A e \in 1 .. Len(Map) : ~Rejected(e) /\ e \notin left => FollowsHeaders(e)'
    BY <1>3, <1>6 DEF Protection, Pass, FollowsHeaders
  <2> QED BY <1>3, <1>6, <2>1, <2>2 DEF Protection, Pass
<1> QED BY <1>5, <1>6 DEF ProtectBlock

LEMMA NextProtection ==
  Structure /\ Structure' /\ Protection /\ [Next]_vars => Protection'
<1> SUFFICES ASSUME Structure, Structure', Protection, [Next]_vars PROVE Protection'
  OBVIOUS
<1> USE DEF vars, progress, parsed, pass, protecting, patching
<1>1. CASE ProtectBlock
  BY <1>1, ProtectBlockProtection
<1>2. CASE ~ProtectBlock
  <2>1. UNCHANGED <<image, prot>> /\ Map' = Map
    BY <1>2 DEF Map, Next, Step, Throw, Dlopen, DlopenFails, ParseEntry, LoadThrows,
         NothingLoaded, DumpThrows, LibsLoaded, PassDone, PassFails, DoLibCapFixups,
         ProtectFails, Unprotected, Restored, PatchCap, SkipReloc, NextTable,
         MalformedTable, TablesDone, RunThrows, EndStatic, Revert, DeleteLibs,
         CompartmentWrites, Ended, StartPass
  <2>2. /\ NeverWritableAndExecutable'
        /\ \A e : FollowsHeaders(e)' <=> FollowsHeaders(e)
        /\ \A e : Rejected(e)' <=> Rejected(e)
    BY <2>1 DEF NeverWritableAndExecutable, FollowsHeaders, Rejected, Protection
  <2>3. CASE DlopenFails \/ LoadThrows \/ NothingLoaded \/ DumpThrows \/ MalformedTable \/ RunThrows
             \/ Dlopen \/ ParseEntry
    <3>1. pc' \in {"terminated", "ParseLinkMap"}
      BY <2>3 DEF DlopenFails, LoadThrows, NothingLoaded, DumpThrows,
                  MalformedTable, RunThrows, Throw,
                  Dlopen, ParseEntry
    <3> QED BY <3>1, <2>2 DEF Protection, Pass
  <2>4. CASE LibsLoaded \/ Revert
    <3>1. \A e \in 1 .. Len(Map) : ~Rejected(e) => e \in left'
      BY <2>4, <2>1, <2>2 DEF LibsLoaded, Revert, StartPass, Structure, Pass
    <3>2. pc' = "DoAllLibCapFixups"
      BY <2>4 DEF LibsLoaded, Revert, StartPass
    <3> QED BY <3>1, <3>2, <2>1, <2>2 DEF Protection
  <2>5. CASE PassDone \/ PassFails \/ EndStatic \/ DeleteLibs
    <3>1. pc' \in {"running", "delete", "exit"}
      BY <2>5 DEF PassDone, PassFails, EndStatic, DeleteLibs
    <3>2. pc' = "running" \/ ret' = 0 =>
            /\ \/ pc \in {"DoAllLibCapFixups", "running"}
               \/ pc = "delete" /\ ret = 0
            /\ left' = left
      BY <2>5 DEF PassDone, PassFails, EndStatic, DeleteLibs
    <3> QED BY <3>1, <3>2, <2>1, <2>2 DEF Protection, Pass
  <2>6. CASE DoLibCapFixups \/ ProtectFails
    <3>1. /\ pc \in Pass /\ left' = left
          /\ \/ pc' = "failed"
             \/ pc' = "unprotect" /\ block' = 1
      BY <2>6 DEF DoLibCapFixups, ProtectFails, Pass
    <3>2. \A c \in 1 .. Len(Map[so'].load) : ~(c < 1)
      OBVIOUS
    <3> QED BY <3>1, <3>2, <2>1, <2>2 DEF Protection, Pass
  <2>7. CASE Unprotected
    <3>1. \A b \in 1 .. Len(Map[so].load) : b < block
      <4>1. so \in 1 .. Len(Map) /\ block \in Nat
        BY <2>7 DEF Unprotected, Structure, InLib, TypeOK
      <4>2. Len(Map[so].load) \in Nat
        BY <4>1, BlockType DEF Structure
      <4> QED BY <2>7, <4>1, <4>2 DEF Unprotected
    <3>2. \A b \in 1 .. Len(Map[so].load) : \A p \in Map[so].load[b].pages : "write" \in prot[p]
      BY <3>1, <2>7 DEF Unprotected, Protection
    <3> QED BY <3>2, <2>7, <2>1, <2>2 DEF Unprotected, Protection, Pass
  <2>8. CASE Restored
    <3>1. \A b \in 1 .. Len(Map[so].load) : b < block
      <4>1. so \in 1 .. Len(Map) /\ block \in Nat
        BY <2>8 DEF Restored, Structure, InLib, TypeOK
      <4>2. Len(Map[so].load) \in Nat
        BY <4>1, BlockType DEF Structure
      <4> QED BY <2>8, <4>1, <4>2 DEF Restored
    <3>2. FollowsHeaders(so)
      BY <3>1, <2>8 DEF Restored, Protection, FollowsHeaders
    <3> QED BY <3>2, <2>8, <2>1, <2>2 DEF Restored, Protection, Pass
  <2>9. CASE PatchCap \/ SkipReloc \/ NextTable
    <3>1. pc = "PatchCaps" /\ UNCHANGED <<pc, left, so>>
      BY <2>9 DEF PatchCap, SkipReloc, NextTable, InTable
    <3> QED BY <3>1, <2>1, <2>2 DEF Protection, Pass
  <2>10. CASE TablesDone
    <3>1. pc = "PatchCaps" /\ pc' = "restore" /\ UNCHANGED left /\ block' = 1
      BY <2>10 DEF TablesDone
    <3>2. \A c \in 1 .. Len(Map[so'].load) : ~(c < 1)
      OBVIOUS
    <3> QED BY <3>1, <3>2, <2>1, <2>2 DEF Protection, Pass
  <2>11. CASE \E s \in Slot : CompartmentWrites(s)
    BY <2>11, <2>1, <2>2 DEF CompartmentWrites, Protection, Pass
  <2>12. CASE UNCHANGED vars
    BY <2>12, <2>1, <2>2 DEF Protection
  <2> QED
    BY <1>2, <2>3, <2>4, <2>5, <2>6, <2>7, <2>8, <2>9, <2>10, <2>11, <2>12
       DEF Next, Step, Ended
<1> QED BY <1>1, <1>2

LEMMA AlwaysProtection == Spec => []Protection
<1>1. Init => Protection
  BY ImageAssumption DEF Init, Protection, NeverWritableAndExecutable, Pass
<1> QED BY <1>1, AlwaysStructure, NextProtection, PTL DEF Spec

(* No page is writable and executable at any time.                         *)
THEOREM WritableOrExecutable == Spec => []NeverWritableAndExecutable
<1>1. Protection => NeverWritableAndExecutable
  BY DEF Protection
<1> QED BY <1>1, AlwaysProtection, PTL

(* Every patch is stored to a page that is writable by then.               *)
THEOREM StoresNeverFault == Spec => []StoreNeverFaults
<1>1. Structure /\ Protection => StoreNeverFaults
  <2> SUFFICES ASSUME Structure, Protection, InTable
               PROVE  "write" \in prot[PageOf[CurrentReloc.slot]]
    BY DEF StoreNeverFaults
  <2>1. /\ so \in 1 .. Len(image.map) /\ table \in 1 .. 3 /\ image \in Images
        /\ reloc \in 1 .. Len(image.map[so].tables[table].relocs)
    BY RelocInTable DEF Map, CurrentTable, Structure, TypeOK
  <2>2. \E b \in 1 .. Len(image.map[so].load) :
          PageOf[image.map[so].tables[table].relocs[reloc].slot] \in image.map[so].load[b].pages
    BY <2>1, ImageAssumption
  <2> QED BY <2>2 DEF CurrentReloc, CurrentTable, Map, Protection, InTable
<1> QED BY <1>1, AlwaysStructure, AlwaysProtection, PTL

(* While the compartment runs, and after a good end, the blocks of its     *)
(* libraries are protected as their headers say.                           *)
THEOREM ProtectionAlwaysFollowsHeaders == Spec => []ProtectionFollowsHeaders
<1>1. Structure /\ Protection => ProtectionFollowsHeaders
  <2> SUFFICES ASSUME Structure, Protection, pc = "running" \/ (pc = "exit" /\ ret = 0),
                      NEW e \in 1 .. Len(Map), IsLib(e)
               PROVE  FollowsHeaders(e)
    BY DEF ProtectionFollowsHeaders, FollowsHeaders
  <2>1. ~Rejected(e)
    BY DEF IsLib, Rejected
  <2>2. left = {}
    BY DEF Structure
  <2> QED BY <2>1, <2>2 DEF Protection, Pass
<1> QED BY <1>1, AlwaysStructure, AlwaysProtection, PTL
------------------------------------------------------------------------------
LEMMA PatchedSlot ==
  ASSUME Structure, PatchCap
  PROVE  /\ so \in 1 .. Len(Map) /\ IsLib(so) /\ ~Rejected(so)
         /\ CurrentReloc.slot \in FixSlots(so)
         /\ mem' = [mem EXCEPT ![CurrentReloc.slot] =
                      DeriveFixupValue(mem[CurrentReloc.slot], makeRestricted)]
         /\ mem[CurrentReloc.slot] \in Cap /\ mem[CurrentReloc.slot].tag
<1>1. InTable /\ NeedsFixup
  BY DEF PatchCap
<1>2. /\ so \in 1 .. Len(Map) /\ table \in 1 .. 3
      /\ reloc \in 1 .. Len(CurrentTable.relocs)
      /\ CurrentReloc \in [slot : Slot, fix : BOOLEAN]
      /\ CurrentReloc.slot \in Slot
      /\ mem[CurrentReloc.slot] \in Cap
  BY <1>1, RelocInTable
<1>3. so \in m_so_map
  BY <1>1 DEF InTable, Structure, InLib, TypeOK
<1>4. ~Rejected(so) /\ IsLib(so)
  BY <1>3 DEF Structure, Rejected, IsLib
<1>5. CurrentReloc = [slot |-> CurrentReloc.slot, fix |-> TRUE]
  BY <1>1, <1>2 DEF NeedsFixup
<1>6. CurrentReloc.slot \in FixSlots(so)
  BY <1>1, <1>2, <1>5 DEF FixSlots, CurrentReloc, CurrentTable, InTable, NeedsFixup
<1> QED BY <1>1, <1>2, <1>4, <1>6 DEF PatchCap, NeedsFixup

(* Neither pass touches pages and slots that are not those of the loaded   *)
(* libraries, nor the slots that the linker calls their initialisation and *)
(* termination code through.                                               *)
THEOREM AlwaysOnlySymbolsOfLoadedLibs == Spec => OnlySymbolsOfLoadedLibs
<1>1. Structure /\ [Next]_vars => [TouchesLoadedLibs]_vars
  <2> SUFFICES ASSUME Structure, Next PROVE TouchesLoadedLibs
    BY DEF vars, progress, parsed, pass, protecting, patching, TouchesLoadedLibs
  <2>1. CASE ProtectBlock
    <3>1. so \in 1 .. Len(Map) /\ IsLib(so) /\ block \in 1 .. Len(Map[so].load)
      BY <2>1, BlockType DEF ProtectBlock, Structure, InLib, TypeOK, IsLib, Rejected
    <3>2. \A p \in Page : prot'[p] # prot[p] => p \in Map[so].load[block].pages
      BY <2>1 DEF ProtectBlock, Mprotect
    <3>3. UNCHANGED mem
      BY <2>1 DEF ProtectBlock
    <3> QED BY <3>1, <3>2, <3>3 DEF TouchesLoadedLibs, PagesOf
  <2>2. CASE PatchCap
    <3>1. UNCHANGED prot
      BY <2>2 DEF PatchCap
    <3>2. \A s \in Slot : mem'[s] # mem[s] => s = CurrentReloc.slot
      BY <2>2, PatchedSlot DEF Structure, TypeOK
    <3> QED BY <2>2, <3>1, <3>2, PatchedSlot DEF TouchesLoadedLibs
  <2>3. CASE \E s \in Slot : CompartmentWrites(s)
    BY <2>3 DEF CompartmentWrites, TouchesLoadedLibs
  <2>4. CASE UNCHANGED <<mem, prot>>
    BY <2>4 DEF TouchesLoadedLibs
  <2> QED
    BY <2>1, <2>2, <2>3, <2>4
       DEF vars, Next, Step, Throw, Dlopen, DlopenFails, ParseEntry, LoadThrows,
         NothingLoaded, DumpThrows, LibsLoaded, PassDone, PassFails, DoLibCapFixups,
         ProtectFails, Unprotected, Restored, SkipReloc, NextTable,
         MalformedTable, TablesDone, RunThrows, EndStatic, Revert, DeleteLibs, Ended
<1> QED BY <1>1, AlwaysStructure, PTL DEF Spec, OnlySymbolsOfLoadedLibs

(* Of a capability within fixup_cap the passes only change the executive   *)
(* permission.                                                             *)
LEMMA FixupWithin ==
  ASSUME NEW c \in Cap, c.tag, Proper(c), Within(c, fixup_cap)
  PROVE  /\ DeriveFixupValue(c, TRUE) =
              [c EXCEPT !.perms = DeriveFixupValue(c, TRUE).perms]
         /\ c.perms \subseteq fixup_cap.perms =>
              DeriveFixupValue(c, TRUE) = [c EXCEPT !.perms = c.perms \ {"executive"}]
         /\ c.perms \subseteq fixup_cap.perms => DeriveFixupValue(c, FALSE) =
              [c EXCEPT !.perms = c.perms \cup ({"executive"} \cap fixup_cap.perms)]
<1>1. fixup_cap \in Cap /\ fixup_cap.tag /\ ~fixup_cap.sentry
  BY ImageAssumption
<1>2. {} \in SUBSET Perm /\ {"executive"} \in SUBSET Perm
  BY CapabilityAssumption
<1>d. ASSUME NEW S \in SUBSET Perm, NEW D \in SUBSET Perm
      PROVE  DeriveFromCap(fixup_cap, c, S, D)
               = [c EXCEPT !.perms = fixup_cap.perms \cap ((c.perms \cup S) \ D)]
  BY <1>1, DeriveWithin
<1>3. DeriveFromCap(fixup_cap, c, {}, {"executive"})
        = [c EXCEPT !.perms = fixup_cap.perms \cap ((c.perms \cup {}) \ {"executive"})]
  BY <1>2, <1>d
<1>4. DeriveFromCap(fixup_cap, c, {"executive"}, {})
        = [c EXCEPT !.perms = fixup_cap.perms \cap ((c.perms \cup {"executive"}) \ {})]
  BY <1>2, <1>d
<1>5. c.perms \subseteq fixup_cap.perms =>
        fixup_cap.perms \cap ((c.perms \cup {}) \ {"executive"}) = c.perms \ {"executive"}
  OBVIOUS
<1>6. c.perms \subseteq fixup_cap.perms =>
        fixup_cap.perms \cap ((c.perms \cup {"executive"}) \ {})
          = c.perms \cup ({"executive"} \cap fixup_cap.perms)
  OBVIOUS
<1>7. DeriveFixupValue(c, TRUE) = DeriveFromCap(fixup_cap, c, {}, {"executive"})
  BY DEF DeriveFixupValue
<1>8. DeriveFixupValue(c, TRUE) = [c EXCEPT !.perms = DeriveFixupValue(c, TRUE).perms]
  BY <1>3, <1>7 DEF Cap
<1> QED BY <1>3, <1>4, <1>5, <1>6, <1>8 DEF DeriveFixupValue

(* c without and with the executive permission, as far as fixup_cap has it. *)
Taken(c) == [c EXCEPT !.perms = @ \ {"executive"}]
Given(c) == [c EXCEPT !.perms = @ \cup ({"executive"} \cap fixup_cap.perms)]

(* What fixup_cap can build again is one of three values, whatever passes  *)
(* it has been through, and keeps its tag.                                 *)
LEMMA FixupInverse ==
  ASSUME NEW c \in Cap, c.tag, Proper(c), Rebuildable(c),
         NEW v \in {c, Taken(c), Given(c)}
  PROVE  /\ v.tag
         /\ DeriveFixupValue(v, TRUE) = Taken(c)
         /\ DeriveFixupValue(v, FALSE) = Given(c)
<1> DEFINE X == {"executive"} \cap fixup_cap.perms
<1>1. /\ Within(c, fixup_cap) /\ c.perms \subseteq fixup_cap.perms
      /\ c.perms \subseteq Perm /\ X \subseteq Perm /\ fixup_cap.perms \subseteq Perm
  BY ImageAssumption DEF Rebuildable, Cap
<1>2. /\ v \in Cap /\ v.tag /\ v.base = c.base /\ v.len = c.len /\ v.addr = c.addr
      /\ (v.sentry <=> c.sentry) /\ v.perms \in {c.perms, c.perms \ {"executive"}, c.perms \cup X}
  BY <1>1 DEF Taken, Given, Cap
<1>3. /\ v.perms \ {"executive"} = c.perms \ {"executive"} /\ v.perms \cup X = c.perms \cup X
      /\ v.perms \subseteq fixup_cap.perms
  BY <1>1, <1>2
<1>4. Proper(v) /\ Within(v, fixup_cap)
  BY <1>1, <1>2 DEF Proper, Within
<1>5. /\ DeriveFixupValue(v, TRUE) = [v EXCEPT !.perms = v.perms \ {"executive"}]
      /\ DeriveFixupValue(v, FALSE) = [v EXCEPT !.perms = v.perms \cup X]
  BY <1>2, <1>3, <1>4, FixupWithin
<1>6. ASSUME NEW P \in SUBSET Perm
      PROVE  [v EXCEPT !.perms = P] = [c EXCEPT !.perms = P]
  <2> DEFINE q == [v EXCEPT !.perms = P]
             r == [c EXCEPT !.perms = P]
  <2>1. /\ q \in Cap /\ q.base = v.base /\ q.len = v.len /\ q.addr = v.addr
        /\ q.perms = P /\ q.tag = v.tag /\ q.sentry = v.sentry
    BY <1>2 DEF Cap
  <2>2. /\ r \in Cap /\ r.base = c.base /\ r.len = c.len /\ r.addr = c.addr
        /\ r.perms = P /\ r.tag = c.tag /\ r.sentry = c.sentry
    BY DEF Cap
  <2> HIDE DEF q, r
  <2>3. (q.tag <=> r.tag) /\ (q.sentry <=> r.sentry)
    BY <1>2, <2>1, <2>2
  <2>4. q = r
    BY <1>2, <2>1, <2>2, <2>3, CapEquality
  <2> QED BY <2>4 DEF q, r
<1>7. Taken(c) = [c EXCEPT !.perms = v.perms \ {"executive"}]
  BY <1>3 DEF Taken
<1>8. Given(c) = [c EXCEPT !.perms = v.perms \cup X]
  BY <1>3 DEF Given
<1>9. v.perms \ {"executive"} \in SUBSET Perm /\ v.perms \cup X \in SUBSET Perm
  BY <1>1, <1>2
<1> HIDE DEF X
<1> QED BY <1>2, <1>5, <1>6, <1>7, <1>8, <1>9

(* The capability that the revert pass leaves is as RoundTrip says.        *)
LEMMA GivenReverted ==
  ASSUME NEW c \in Cap
  PROVE  Given(c) \in {c, [c EXCEPT !.perms = @ \cup {"executive"}]}
<1>1. CASE "executive" \in fixup_cap.perms
  <2>1. {"executive"} \cap fixup_cap.perms = {"executive"}
    BY <1>1
  <2> QED BY <2>1 DEF Given
<1>2. CASE "executive" \notin fixup_cap.perms
  <2>1. {"executive"} \cap fixup_cap.perms = {} /\ c.perms \cup {} = c.perms
    BY <1>2
  <2>2. [c EXCEPT !.perms = c.perms] = c
    BY DEF Cap
  <2> QED BY <2>1, <2>2 DEF Given
<1> QED BY <1>1, <1>2

(* A slot that the compartment has not written holds the original, or what *)
(* the passes make of it; the revert pass puts the original back, or the   *)
(* original with the executive permission.                                 *)
Kept(s) ==
  /\ mem[s] \in {image.mem[s], Taken(image.mem[s]), Given(image.mem[s])}
  /\ ~image.mem[s].tag => mem[s] = image.mem[s]
  /\ mem[s] # image.mem[s] => \E e \in 1 .. Len(Map) : ~Rejected(e) /\ s \in FixSlots(e)
  /\ ~makeRestricted /\ pc \in Pass =>
       \A e \in m_so_map \ left : s \in FixSlots(e) => Reverted(s)
  /\ ~makeRestricted /\ pc \in {"PatchCaps", "restore"} /\ s \in Visited => Reverted(s)
  /\ pc \in {"delete", "exit"} /\ ret = 0 /\ ~image.static => Reverted(s)

SymbolsKept == \A s \in Slot \ written : Rebuildable(image.mem[s]) => Kept(s)

LEMMA NextKept == Structure /\ Structure' /\ SymbolsKept /\ [Next]_vars => SymbolsKept'
<1> SUFFICES ASSUME Structure, Structure', SymbolsKept, [Next]_vars,
                    NEW s \in Slot \ written', Rebuildable(image'.mem[s])
             PROVE  Kept(s)'
  BY DEF SymbolsKept
<1> USE DEF vars, progress, parsed, pass, protecting, patching
<1>i. image' = image /\ Map' = Map /\ written \subseteq written'
  BY DEF Map, Next, Step, Init, Throw, Dlopen, DlopenFails, ParseEntry, LoadThrows,
         NothingLoaded, DumpThrows, LibsLoaded, PassDone, PassFails, DoLibCapFixups, ProtectBlock,
         ProtectFails, Unprotected, Restored, PatchCap, SkipReloc, NextTable,
         MalformedTable, TablesDone, RunThrows, EndStatic, Revert, DeleteLibs,
         CompartmentWrites, Ended
<1>f. /\ \A e : FixSlots(e)' = FixSlots(e)
      /\ \A e : Rejected(e)' <=> Rejected(e)
  BY <1>i DEF FixSlots, Rejected
<1>s. s \in Slot /\ Kept(s)
  BY <1>i DEF SymbolsKept
<1>r. mem'[s] = mem[s] /\ Reverted(s) => Reverted(s)'
  BY <1>i DEF Reverted
<1> DEFINE c == image.mem[s]
<1>c. c \in Cap /\ Proper(c) /\ Rebuildable(c)
  <2>1. image \in Image
    BY MapType DEF Structure
  <2>2. image.mem \in [Slot -> Cap]
    BY <2>1 DEF Image
  <2>3. \A v \in Slot : Proper(image.mem[v])
    BY ImageAssumption DEF Structure, TypeOK
  <2>4. image' = image
    BY <1>i
  <2> QED BY <2>2, <2>3, <2>4, <1>s
<1>1. CASE DlopenFails \/ LoadThrows \/ NothingLoaded \/ DumpThrows \/ MalformedTable \/ RunThrows
           \/ Dlopen \/ ParseEntry \/ LibsLoaded \/ EndStatic \/ PassFails
  <2>1. UNCHANGED mem
    BY <1>1 DEF DlopenFails, LoadThrows, NothingLoaded, DumpThrows,
                MalformedTable, RunThrows, Throw,
                Dlopen, ParseEntry, LibsLoaded, StartPass, EndStatic, PassFails
  <2>2. pc' \notin Pass \/ makeRestricted'
    BY <1>1 DEF DlopenFails, LoadThrows, NothingLoaded, DumpThrows,
                MalformedTable, RunThrows, Throw,
                Dlopen, ParseEntry, LibsLoaded, StartPass, EndStatic, PassFails, Pass
  <2>3. pc' \notin {"delete", "exit"} \/ ret' # 0 \/ image'.static
    BY <1>1 DEF DlopenFails, LoadThrows, NothingLoaded, DumpThrows,
                MalformedTable, RunThrows, Throw,
                Dlopen, ParseEntry, LibsLoaded, StartPass, EndStatic, PassFails
  <2> QED BY <2>1, <2>2, <2>3, <1>i, <1>f, <1>r, <1>s DEF Kept, Pass
<1>2. CASE PassDone
  <2>1. UNCHANGED mem /\ pc' \notin Pass
    BY <1>2 DEF PassDone, Pass
  <2>2. pc' \in {"delete", "exit"} => Reverted(s)
    <3> SUFFICES ASSUME ~makeRestricted PROVE Reverted(s)
      BY <1>2 DEF PassDone
    <3>1. \A e \in 1 .. Len(Map) : ~Rejected(e) => e \in m_so_map \ left
      BY <1>2 DEF PassDone, Structure, Pass
    <3>2. mem[s] = c => Reverted(s)
      BY DEF Reverted
    <3> QED BY <1>2, <1>s, <3>1, <3>2 DEF Kept, PassDone, Pass
  <2> QED BY <2>1, <2>2, <1>i, <1>f, <1>r, <1>s DEF Kept, Pass
<1>3. CASE DoLibCapFixups \/ ProtectFails
  BY <1>3, <1>i, <1>f, <1>r, <1>s DEF DoLibCapFixups, ProtectFails, Kept, Pass
<1>4. CASE ProtectBlock
  <2>1. UNCHANGED <<image, pc, mem, m_so_map, left, so, makeRestricted, table, reloc, ret>>
    BY <1>4 DEF ProtectBlock
  <2>2. Visited' = Visited
    BY <2>1, <1>i DEF Visited
  <2> QED BY <2>1, <2>2, <1>i, <1>f, <1>r, <1>s DEF Kept
<1>5. CASE Unprotected
  <2>1. Visited' = {}
    BY <1>5, NoneVisited DEF Unprotected
  <2> QED BY <1>5, <2>1, <1>i, <1>f, <1>r, <1>s DEF Unprotected, Kept, Pass
<1>6. CASE Restored
  <2>1. Visited = FixSlots(so)
    BY <1>6, AllVisited DEF Restored, Structure
  <2> QED BY <1>6, <2>1, <1>i, <1>f, <1>r, <1>s DEF Restored, Kept, Pass
<1>7. CASE PatchCap
  <2> DEFINE u == CurrentReloc.slot
  <2>1. /\ pc = "PatchCaps" /\ UNCHANGED <<pc, m_so_map, left, makeRestricted, ret>>
        /\ \A v \in Visited' : v \in Visited \/ v = u
    BY <1>7, RelocVisited DEF PatchCap, InTable
  <2>2. /\ so \in 1 .. Len(Map) /\ ~Rejected(so) /\ u \in FixSlots(so)
        /\ mem' = [mem EXCEPT ![u] = DeriveFixupValue(mem[u], makeRestricted)]
        /\ mem[u].tag
    BY <1>7, PatchedSlot
  <2>3. CASE s # u
    <3>1. mem'[s] = mem[s]
      BY <2>2, <2>3, <1>s DEF Structure, TypeOK
    <3> HIDE DEF u
    <3> QED BY <2>1, <2>3, <3>1, <1>i, <1>f, <1>r, <1>s DEF Kept
  <2>4. CASE s = u
    <3>1. c.tag /\ mem[s] \in {c, Taken(c), Given(c)}
      <4>1. ~c.tag => mem[s] = c
        BY <1>s DEF Kept
      <4> QED BY <2>2, <2>4, <4>1, <1>s DEF Kept
    <3>2. /\ DeriveFixupValue(mem[s], TRUE) = Taken(c)
          /\ DeriveFixupValue(mem[s], FALSE) = Given(c)
      BY <3>1, <1>c, FixupInverse
    <3>3. mem'[s] = DeriveFixupValue(mem[s], makeRestricted)
      BY <2>2, <2>4, <1>s DEF Structure, TypeOK
    <3>4. makeRestricted \in BOOLEAN
      BY DEF Structure, TypeOK
    <3>5. CASE makeRestricted = TRUE
      <4>1. mem'[s] = Taken(c)
        BY <3>2, <3>3, <3>5
      <4> HIDE DEF u
      <4> QED BY <2>1, <2>2, <2>4, <3>1, <3>5, <4>1, <1>i, <1>f DEF Kept
    <3>6. CASE makeRestricted = FALSE
      <4>1. mem'[s] = Given(c)
        BY <3>2, <3>3, <3>6
      <4>2. Reverted(s)'
        <5>1. image'.mem[s] = c /\ s \in Slot
          BY <1>i, <1>s
        <5> QED BY <5>1, <4>1, <3>1, <1>c, GivenReverted DEF Reverted
      <4> HIDE DEF u
      <4> QED BY <2>2, <2>4, <3>1, <4>1, <4>2, <1>i, <1>f DEF Kept
    <3> QED BY <3>4, <3>5, <3>6
  <2> QED BY <2>3, <2>4
<1>8. CASE SkipReloc
  <2>1. s \in Visited' /\ s \notin Visited => ~mem[s].tag
    BY <1>8, RelocVisited DEF SkipReloc, NeedsFixup
  <2>2. ~mem[s].tag => mem[s] = c /\ Reverted(s)
    <3> SUFFICES ASSUME ~mem[s].tag, c.tag PROVE FALSE
      BY <1>s DEF Kept, Reverted
    <3>1. mem[s] \in {c, Taken(c), Given(c)}
      BY <1>s DEF Kept
    <3> QED BY <3>1, <1>c, FixupInverse
  <2> QED BY <1>8, <2>1, <2>2, <1>i, <1>f, <1>r, <1>s DEF SkipReloc, InTable, Kept, Pass
<1>9. CASE NextTable
  <2>1. Visited' \subseteq Visited
    BY <1>9, TableVisited
  <2> QED BY <1>9, <2>1, <1>i, <1>f, <1>r, <1>s DEF NextTable, Kept, Pass
<1>10. CASE TablesDone
  <2>1. Visited' = Visited
    BY <1>10, <1>i DEF TablesDone, Visited
  <2> QED BY <1>10, <2>1, <1>i, <1>f, <1>r, <1>s DEF TablesDone, Kept, Pass
<1>11. CASE \E u \in Slot : CompartmentWrites(u)
  <2>1. PICK u \in Slot : CompartmentWrites(u)
    BY <1>11
  <2>2. s # u /\ mem'[s] = mem[s]
    BY <2>1, <1>s DEF CompartmentWrites, Structure, TypeOK
  <2>3. pc' = "running"
    BY <2>1 DEF CompartmentWrites
  <2> QED BY <2>2, <2>3, <1>i, <1>f, <1>r, <1>s DEF Kept, Pass
<1>12. CASE Revert
  BY <1>12, <1>i, <1>f, <1>r, <1>s DEF Revert, StartPass, Kept, Pass
<1>13. CASE DeleteLibs
  BY <1>13, <1>i, <1>f, <1>r, <1>s DEF DeleteLibs, Kept, Pass
<1>14. CASE UNCHANGED vars
  <2>1. Visited' = Visited
    BY <1>14, <1>i DEF Visited
  <2> QED BY <1>14, <2>1, <1>i, <1>f, <1>r, <1>s DEF Kept
<1> QED
  BY <1>1, <1>2, <1>3, <1>4, <1>5, <1>6, <1>7, <1>8, <1>9, <1>10, <1>11, <1>12, <1>13,
     <1>14 DEF Next, Step, Ended

(* When main ends well, every symbol that the compartment did not write    *)
(* and that lies within what fixup_cap grants is the capability that the   *)
(* dynamic linker had made, or that capability with the executive          *)
(* permission, which one that had it has again.                            *)
THEOREM AlwaysRoundTrip == Spec => []RoundTrip
<1>1. Init => SymbolsKept
  <2> SUFFICES ASSUME Init, NEW s \in Slot PROVE Kept(s)
    BY DEF SymbolsKept
  <2> QED BY DEF Init, Kept, Pass
<1>2. SymbolsKept => RoundTrip
  BY DEF SymbolsKept, Kept, RoundTrip
<1> QED BY <1>1, <1>2, AlwaysStructure, NextKept, PTL DEF Spec
------------------------------------------------------------------------------
(* Every value in memory is proper.                                        *)
MemoryProper == \A s \in Slot : Proper(mem[s])

LEMMA FixupProper ==
  ASSUME NEW c \in Cap, NEW restricted \in BOOLEAN
  PROVE  Proper(DeriveFixupValue(c, restricted))
<1>1. {} \in SUBSET Perm /\ {"executive"} \in SUBSET Perm
  BY CapabilityAssumption
<1>2. fixup_cap \in Cap
  BY ImageAssumption
<1>3. Proper(DeriveFromCap(fixup_cap, c, {}, {"executive"}))
  BY <1>1, <1>2, DeriveProper
<1>4. Proper(DeriveFromCap(fixup_cap, c, {"executive"}, {}))
  BY <1>1, <1>2, DeriveProper
<1> QED BY <1>3, <1>4 DEF DeriveFixupValue

LEMMA NextMemoryProper == Structure /\ MemoryProper /\ [Next]_vars => MemoryProper'
<1> SUFFICES ASSUME Structure, MemoryProper, [Next]_vars, NEW s \in Slot
             PROVE  Proper(mem'[s])
  BY DEF MemoryProper, Proper
<1>m. mem \in [Slot -> Cap] /\ makeRestricted \in BOOLEAN /\ Proper(mem[s])
  BY DEF Structure, TypeOK, MemoryProper
<1>1. CASE PatchCap
  <2>1. CurrentReloc.slot \in Slot
    BY <1>1, RelocInTable DEF PatchCap
  <2>2. mem'[s] \in {mem[s], DeriveFixupValue(mem[s], makeRestricted)}
    BY <1>1, <1>m, <2>1 DEF PatchCap
  <2> QED BY <1>m, <2>2, FixupProper
<1>2. CASE \E u \in Slot : CompartmentWrites(u)
  <2>1. PICK u \in Slot : CompartmentWrites(u)
    BY <1>2
  <2>2. PICK c \in {mem[t] : t \in Slot} \cup {[mem[u] EXCEPT !.tag = FALSE]} :
          mem' = [mem EXCEPT ![u] = c]
    BY <2>1 DEF CompartmentWrites
  <2>3. mem[u] \in Cap
    BY <1>m
  <2>4. Proper([mem[u] EXCEPT !.tag = FALSE])
    BY <2>3 DEF Proper, Cap
  <2>5. Proper(c)
    BY <2>2, <2>4 DEF MemoryProper
  <2> QED BY <1>m, <2>2, <2>5
<1>3. CASE UNCHANGED mem
  BY <1>3, <1>m
<1> QED
  BY <1>1, <1>2, <1>3
     DEF vars, Next, Step, Throw, Dlopen, DlopenFails, ParseEntry, LoadThrows,
       NothingLoaded, DumpThrows, LibsLoaded, PassDone, PassFails, DoLibCapFixups, ProtectBlock,
       ProtectFails, Unprotected, Restored, SkipReloc, NextTable, MalformedTable,
       TablesDone, RunThrows, EndStatic, Revert, DeleteLibs, Ended

(* Patching takes permissions from a capability, the executive one among   *)
(* them, keeps its address, never reaches beyond fixup_cap, and leaves     *)
(* what lies within fixup_cap as it was otherwise.                         *)
THEOREM AlwaysPatchOnlyRestricts == Spec => PatchOnlyRestricts
<1>1. Init => MemoryProper
  BY ImageAssumption DEF Init, MemoryProper
<1>2. Structure /\ MemoryProper /\ [Next]_vars => [TakesPermissions]_vars
  <2> SUFFICES ASSUME Structure, MemoryProper, Next, pc = "PatchCaps", makeRestricted,
                      NEW s \in Slot, mem'[s] # mem[s]
               PROVE  /\ mem'[s].perms \subseteq mem[s].perms \ {"executive"}
                      /\ mem'[s].addr = mem[s].addr /\ Within(mem'[s], fixup_cap)
                      /\ Within(mem[s], fixup_cap) =>
                           mem'[s] = [mem[s] EXCEPT !.perms = mem'[s].perms]
    BY DEF vars, TakesPermissions
  <2>1. PatchCap
    BY DEF vars, Next, Step, Throw, Dlopen, DlopenFails, ParseEntry, LoadThrows,
         NothingLoaded, DumpThrows, LibsLoaded, PassDone, PassFails, DoLibCapFixups, ProtectBlock,
         ProtectFails, Unprotected, Restored, SkipReloc, NextTable, MalformedTable,
         TablesDone, RunThrows, EndStatic, Revert, DeleteLibs, CompartmentWrites, Ended
  <2> DEFINE c == mem[s]
             v == DeriveFixupValue(c, makeRestricted)
  <2>2. mem'[s] = v /\ c \in Cap /\ c.tag /\ Proper(c)
    BY <2>1, PatchedSlot DEF Structure, TypeOK, MemoryProper
  <2>3. makeRestricted \in BOOLEAN /\ makeRestricted = TRUE
    BY DEF Structure, TypeOK
  <2>4. v.perms \subseteq c.perms \ {"executive"}
    BY <2>2, <2>3, FixupValue
  <2>5. v.addr = c.addr /\ Within(v, fixup_cap)
    <3>1. c \in Cap /\ fixup_cap \in Cap /\ {} \in SUBSET Perm /\ {"executive"} \in SUBSET Perm
      BY <2>2, ImageAssumption, CapabilityAssumption
    <3>2. v = DeriveFromCap(fixup_cap, c, {}, {"executive"})
      BY <2>3 DEF DeriveFixupValue
    <3> HIDE DEF c, v
    <3> QED BY <3>1, <3>2, DerivePlace
  <2>6. ASSUME Within(c, fixup_cap) PROVE v = [c EXCEPT !.perms = v.perms]
    <3>1. c \in Cap /\ c.tag /\ Proper(c) /\ Within(c, fixup_cap)
      BY <2>2, <2>6
    <3> HIDE DEF c
    <3> QED BY <3>1, <2>3, FixupWithin
  <2> QED BY <2>2, <2>4, <2>5, <2>6
<1> QED BY <1>1, <1>2, AlwaysStructure, NextMemoryProper, PTL DEF Spec, PatchOnlyRestricts
------------------------------------------------------------------------------
(* Implementing Confinement.                                               *)
ExecutiveSymbols == {s \in LibSymbols : Executive(mem[s])}

LEMMA SymbolsFixed ==
  ASSUME [Next]_vars
  PROVE  LibSymbols' = LibSymbols
<1>1. image' = image
  BY DEF vars, Next, Step, Throw, Dlopen, DlopenFails, ParseEntry, LoadThrows,
         NothingLoaded, DumpThrows, LibsLoaded, PassDone, PassFails, DoLibCapFixups, ProtectBlock,
         ProtectFails, Unprotected, Restored, PatchCap, SkipReloc, NextTable,
         MalformedTable, TablesDone, RunThrows, EndStatic, Revert, DeleteLibs,
         CompartmentWrites, Ended
<1> QED BY <1>1 DEF LibSymbols, FixSlots, IsLib, Map

LEMMA NoExecutiveSymbols ==
  ASSUME Confined, pc = "running"
  PROVE  ExecutiveSymbols = {}
BY DEF Confined, ExecutiveSymbols, LibSymbols

(* Each step is one of Confinement, or leaves phase and symbols as they are. *)
LEMMA StepConfines ==
  ASSUME Structure, Confined, Confined', [TakesPermissions]_vars, [Next]_vars
  PROVE  Confining!Next \/ UNCHANGED <<Phase, ExecutiveSymbols>>
<1>s. LibSymbols' = LibSymbols
  BY SymbolsFixed
<1>m. UNCHANGED mem => UNCHANGED ExecutiveSymbols
  BY <1>s DEF ExecutiveSymbols
<1>t. ExecutiveSymbols' \subseteq Slot
  BY <1>s DEF ExecutiveSymbols, LibSymbols, FixSlots
<1>x. UNCHANGED mem /\ pc' \in {"exit", "terminated"} => Confining!End
  BY <1>m DEF Confining!End, Phase, ExecutiveSymbols
<1>1. CASE PassDone
  <2>1. CASE makeRestricted
    <3>1. pc' = "running" /\ pc = "DoAllLibCapFixups" /\ UNCHANGED mem
      BY <1>1, <2>1 DEF PassDone
    <3>2. ExecutiveSymbols' = {}
      BY <3>1, <1>s DEF Confined, ExecutiveSymbols, LibSymbols
    <3>3. Phase = "patching" /\ Phase' = "running"
      BY <3>1, <2>1 DEF Phase
    <3> QED BY <3>1, <3>2, <3>3, <1>m DEF Confining!Next, Confining!Run, ExecutiveSymbols
  <2>2. CASE ~makeRestricted
    <3>1. pc' = "delete" /\ pc = "DoAllLibCapFixups" /\ UNCHANGED <<mem, makeRestricted>>
      BY <1>1, <2>2 DEF PassDone, progress, pass
    <3> QED BY <3>1, <2>2, <1>m DEF Phase
  <2> QED BY <2>1, <2>2
<1>2. CASE PatchCap
  <2>1. pc = "PatchCaps" /\ pc' = pc /\ UNCHANGED makeRestricted
    BY <1>2 DEF PatchCap, InTable, pass
  <2>2. CASE makeRestricted
    <3>1. \A s \in Slot : mem'[s] # mem[s] => mem'[s].perms \subseteq mem[s].perms \ {"executive"}
      BY <2>1, <2>2 DEF TakesPermissions, vars
    <3>2. \A s \in Slot : Executive(mem'[s]) => Executive(mem[s])
      BY <1>2, <3>1, PatchedSlot DEF Executive, Structure
    <3>3. ExecutiveSymbols' \subseteq ExecutiveSymbols
      BY <3>2, <1>s DEF ExecutiveSymbols, LibSymbols, FixSlots
    <3>4. Phase = "patching" /\ UNCHANGED Phase
      BY <2>1, <2>2 DEF Phase
    <3> QED BY <3>3, <3>4 DEF Confining!Next, Confining!Patch, ExecutiveSymbols
  <2>3. CASE ~makeRestricted
    <3>1. Phase = "reverting" /\ UNCHANGED Phase
      BY <2>1, <2>3 DEF Phase
    <3> QED BY <3>1, <1>t DEF Confining!Next, Confining!Revert, ExecutiveSymbols
  <2> QED BY <2>2, <2>3
<1>3. CASE \E s \in Slot : CompartmentWrites(s)
  <2>1. pc = "running" /\ pc' = "running"
    BY <1>3 DEF CompartmentWrites
  <2>2. ExecutiveSymbols = {} /\ ExecutiveSymbols' = {}
    BY <2>1, <1>s, NoExecutiveSymbols DEF Confined, ExecutiveSymbols, LibSymbols
  <2> QED BY <2>1, <2>2 DEF Phase
<1>4. CASE Revert
  <2>1. Phase = "running" /\ Phase' = "reverting"
    BY <1>4 DEF Revert, StartPass, Phase
  <2> QED BY <2>1, <1>t DEF Confining!Next, Confining!Revert, ExecutiveSymbols
<1>5. CASE PassFails
  <2>1. CASE makeRestricted
    BY <1>5, <2>1, <1>x DEF PassFails, Confining!Next
  <2>2. CASE ~makeRestricted
    BY <1>5, <2>2, <1>m DEF PassFails, Phase
  <2> QED BY <2>1, <2>2
<1>6. CASE DlopenFails \/ LoadThrows \/ NothingLoaded \/ DumpThrows \/ MalformedTable \/ RunThrows
           \/ EndStatic \/ DeleteLibs
  BY <1>6, <1>x DEF DlopenFails, LoadThrows, NothingLoaded, DumpThrows, MalformedTable, RunThrows,
       EndStatic, DeleteLibs, Throw, Confining!Next
<1>7. CASE Dlopen \/ ParseEntry \/ DoLibCapFixups \/ ProtectBlock \/ ProtectFails
           \/ Unprotected \/ Restored \/ SkipReloc \/ NextTable \/ TablesDone
  <2>1. UNCHANGED <<mem, makeRestricted>>
    BY <1>7 DEF Dlopen, ParseEntry, DoLibCapFixups, ProtectBlock, ProtectFails,
         Unprotected, Restored, SkipReloc, NextTable, TablesDone, progress, pass
  <2>2. pc \notin {"exit", "terminated", "running"} /\ pc' \notin {"exit", "terminated", "running"}
    BY <1>7 DEF Dlopen, ParseEntry, DoLibCapFixups, ProtectBlock, ProtectFails,
         Unprotected, Restored, SkipReloc, NextTable, TablesDone, InTable
  <2> QED BY <2>1, <2>2, <1>m DEF Phase
<1>8. CASE LibsLoaded
  BY <1>8, <1>m DEF LibsLoaded, StartPass, Phase, Structure
<1>9. CASE UNCHANGED vars
  BY <1>9, <1>m DEF vars, progress, pass, Phase
<1> QED
  BY <1>1, <1>2, <1>3, <1>4, <1>5, <1>6, <1>7, <1>8, <1>9 DEF Next, Step, Ended

(* Loading, patching, running and reverting implement Confinement.         *)
THEOREM PatchingConfines == Spec => ImplementsConfinement
<1>1. Init => Confining!Init
  BY DEF Init, Confining!Init, Phase, LibSymbols, FixSlots
<1>2. Structure /\ Confined /\ Confined' /\ [TakesPermissions]_vars /\ [Next]_vars
        => [Confining!Next]_<<Phase, ExecutiveSymbols>>
  BY StepConfines
<1>3. Structure /\ Confined /\ Confined' /\ [TakesPermissions]_vars /\ [Next]_vars
        => [Confining!Next]_<<Phase, {s \in LibSymbols : Executive(mem[s])}>>
  BY <1>2 DEF ExecutiveSymbols
<1> QED
  BY <1>1, <1>3, AlwaysStructure, AlwaysConfined, AlwaysPatchOnlyRestricts, PTL
     DEF Spec, ImplementsConfinement, Confining!Spec, PatchOnlyRestricts
------------------------------------------------------------------------------
(* What is left to do in the loops. *)

LEMMA SamePlace ==
  ASSUME UNCHANGED <<pc, makeRestricted>>
  PROVE  Further' = Further
BY DEF Further

(* A step between the parts of main.                                       *)
LEMMA MainAdvances ==
  ASSUME Structure,
         \/ Dlopen \/ DlopenFails \/ LoadThrows \/ NothingLoaded \/ DumpThrows \/ LibsLoaded
         \/ PassDone \/ PassFails \/ MalformedTable
         \/ RunThrows \/ EndStatic \/ Revert \/ DeleteLibs
  PROVE  Further' < Further
<1> USE DEF Further
<1>1. CASE \/ Dlopen \/ DlopenFails \/ LoadThrows \/ NothingLoaded \/ DumpThrows \/ LibsLoaded
           \/ MalformedTable \/ RunThrows
  BY <1>1 DEF Dlopen, DlopenFails, LoadThrows, NothingLoaded, DumpThrows, LibsLoaded,
              MalformedTable, RunThrows, Throw, StartPass, progress, pass
<1>2. CASE PassDone \/ PassFails
  BY <1>2 DEF PassDone, PassFails, progress, pass
<1>3. CASE EndStatic \/ Revert \/ DeleteLibs
  BY <1>3 DEF EndStatic, Revert, DeleteLibs, StartPass, progress, pass
<1> QED BY <1>1, <1>2, <1>3

(* A step in a library.                                                    *)
LEMMA LibraryAdvances ==
  ASSUME Structure, DoLibCapFixups \/ ProtectFails \/ Unprotected \/ TablesDone
  PROVE  Further' = Further /\ pc # "ParseLinkMap" /\ left' = left /\ InLibrary' < InLibrary
BY DEF DoLibCapFixups, ProtectFails, Unprotected, TablesDone, Further, InLibrary, progress, pass

(* No step of main is taken twice, whatever fails: the loops over the link *)
(* map, the libraries, their blocks, tables and relocations end, however   *)
(* long they are.                                                          *)
THEOREM AlwaysEachStepAdvances == Spec => EachStepAdvances
<1>1. Structure /\ Step => Advances
  <2> SUFFICES ASSUME Structure, Step PROVE Advances
    OBVIOUS
  <2>0. TypeOK /\ Len(Map) \in Nat
    BY MapType DEF Structure
  <2>1. CASE \/ Dlopen \/ DlopenFails \/ LoadThrows \/ NothingLoaded \/ DumpThrows \/ LibsLoaded
             \/ PassDone \/ PassFails \/ MalformedTable
             \/ RunThrows \/ EndStatic \/ Revert \/ DeleteLibs
    BY <2>1, MainAdvances DEF Advances
  <2>2. CASE DoLibCapFixups \/ ProtectFails \/ Unprotected \/ TablesDone
    BY <2>2, LibraryAdvances DEF Advances
  <2>3. CASE ParseEntry
    <3>1. Further' = Further
      BY <2>3, SamePlace DEF ParseEntry, pass
    <3>2. link_map \in Nat /\ link_map <= Len(Map) /\ link_map' = link_map + 1
      BY <2>0, <2>3 DEF ParseEntry, TypeOK
    <3>3. Len(Map)' = Len(Map)
      BY <2>3 DEF ParseEntry, Map
    <3>4. Entries = Len(Map) + 1 - link_map /\ Entries' = Len(Map)' + 1 - link_map'
      BY DEF Entries
    <3>5. 0 <= Entries' /\ Entries' < Entries
      BY <2>0, <3>2, <3>3, <3>4
    <3> QED BY <2>3, <3>1, <3>5 DEF Advances, ParseEntry
  <2>4. CASE Restored
    <3>1. Further' = Further
      BY <2>4 DEF Restored, Further
    <3>2. so \in left
      BY <2>4 DEF Restored, Structure, InLib
    <3> QED BY <2>4, <3>1, <3>2 DEF Restored, Advances
  <2>5. CASE ProtectBlock
    <3> DEFINE blocks == Len(Map[so].load)
    <3>1. blocks \in Nat /\ block \in Nat
      BY <2>0, <2>5, BlockType DEF ProtectBlock, Structure, InLib, TypeOK
    <3>2. Further' = Further /\ left' = left
      BY <2>5, SamePlace DEF ProtectBlock, pass
    <3>3. block <= blocks /\ block' = block + 1
      BY <2>5 DEF ProtectBlock
    <3>4. blocks' = blocks
      BY <2>5 DEF ProtectBlock, Map, pass
    <3>5. Mappings = blocks + 1 - block /\ Mappings' = blocks' + 1 - block'
      BY DEF Mappings
    <3> HIDE DEF blocks
    <3>6. 0 <= Mappings' /\ Mappings' < Mappings
      BY <3>1, <3>3, <3>4, <3>5
    <3> QED BY <2>5, <3>2, <3>6 DEF ProtectBlock, Advances
  <2>6. CASE PatchCap \/ SkipReloc
    <3> DEFINE relocs == Len(CurrentTable.relocs)
    <3>1. InTable /\ pc = "PatchCaps"
      BY <2>6 DEF PatchCap, SkipReloc, InTable
    <3>2. reloc \in 1 .. relocs /\ relocs \in Nat
      BY <2>0, <3>1, RelocInTable, TableType DEF CurrentTable
    <3>3. UNCHANGED <<image, pc, makeRestricted, left, so, table>> /\ reloc' = reloc + 1
      BY <2>6 DEF PatchCap, SkipReloc, pass
    <3>4. Further' = Further
      BY <3>3, SamePlace
    <3>5. relocs' = relocs
      BY <3>3 DEF CurrentTable, Map
    <3>6. Relocs = relocs + 1 - reloc /\ Relocs' = relocs' + 1 - reloc'
      BY DEF Relocs
    <3> HIDE DEF relocs
    <3>7. 0 <= Relocs' /\ Relocs' < Relocs
      BY <3>2, <3>3, <3>5, <3>6
    <3> QED BY <3>1, <3>3, <3>4, <3>7 DEF Advances
  <2>7. CASE NextTable
    <3>1. Further' = Further /\ left' = left /\ table' \in table + 1 .. 4 /\ pc = "PatchCaps"
      BY <2>0, <2>7 DEF NextTable, Further, TypeOK, pass
    <3> QED BY <3>1 DEF Advances
  <2> QED BY <2>1, <2>2, <2>3, <2>4, <2>5, <2>6, <2>7 DEF Step
<1> QED BY <1>1, AlwaysStructure, PTL DEF EachStepAdvances
=============================================================================
