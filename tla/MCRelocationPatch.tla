-------------------------- MODULE MCRelocationPatch --------------------------
(* RelocationPatch on link maps like those of the example: the compartment  *)
(* library, libc and the dynamic linker, some of them with a defect.        *)
EXTENDS RelocationPatch

Permissions == {"executive", "load", "store", "execute"}
NearBounds(base, len, a) == base <= a + 2 /\ a <= base + len + 2

C(base, len, addr, perms, sentry) ==
  [tag |-> TRUE, base |-> base, len |-> len, addr |-> addr, perms |-> perms, sentry |-> sentry]
Root     == C(0, 8, 0, Permissions, FALSE)
Function == C(1, 2, 1, Permissions \ {"store"}, TRUE)
Data     == C(3, 2, 4, Permissions \ {"execute"}, FALSE)
Narrow   == C(3, 1, 3, {"load"}, FALSE)                   \* no executive permission
FarAway  == C(9, 6, 14, Permissions, FALSE)               \* not within Root
Zero     == [C(0, 0, 0, {}, FALSE) EXCEPT !.tag = FALSE]  \* e.g. an undefined weak symbol

(* Slots 1..4: the compartment library's GOT (1), a variable of it (2), its *)
(* DT_INIT_ARRAY (3) and a symbol it shares with no one (4); 5 and 6: libc's*)
(* GOT; 7: the linker's.  Pages: text, RELRO and data of each.              *)
Pages == {"comp_text", "comp_relro", "comp_data", "libc_text", "libc_relro", "ld_text", "ld_data"}
Slots == 1 .. 7
PageOfSlot == <<"comp_relro", "comp_data", "comp_relro", "comp_relro",
                "libc_relro", "libc_relro", "ld_data">>
Memory == <<Function, Data, Function, Zero, Function, FarAway, Function>>

RX == {"read", "exec"}
ReadWrite == {"read", "write"}
Relocated == [p \in Pages |-> CASE p \in {"comp_text", "libc_text", "ld_text"} -> RX
                                [] p \in {"comp_relro", "libc_relro"} -> {"read"}
                                [] OTHER -> ReadWrite]

T(relocs)   == [status |-> "ok", relocs |-> relocs]
Fix(s)      == [slot |-> s, fix |-> TRUE]
Leave(s)    == [slot |-> s, fix |-> FALSE]
Absent      == [status |-> "absent", relocs |-> <<>>]
Malformed   == [status |-> "malformed", relocs |-> <<>>]

Lib(name, load, tables, keep) ==
  [name |-> name, loader |-> FALSE, phdrs |-> TRUE, dynamic |-> 1,
   load |-> load, tables |-> tables, keep |-> keep]
Segment(flags, pages) == [flags |-> flags, pages |-> pages]

Comp(plt, rel) ==
  Lib(3, <<Segment(RX, {"comp_text"}), Segment(ReadWrite, {"comp_relro", "comp_data"})>>,
      <<plt, rel, T(<<Fix(2), Fix(3), Leave(1), Fix(4)>>)>>, {3})
LibC(rela) ==
  Lib(1, <<Segment(RX, {"libc_text"}), Segment(ReadWrite, {"libc_relro"})>>,
      <<T(<<Fix(5)>>), Absent, rela>>, {})
LdSo == [Lib(2, <<Segment(RX, {"ld_text"}), Segment(ReadWrite, {"ld_data"})>>,
             <<T(<<Fix(7)>>), Absent, Absent>>, {}) EXCEPT !.loader = TRUE]
App  == [Lib(0, <<>>, <<Absent, Absent, Absent>>, {}) EXCEPT !.phdrs = FALSE]

CompOk == Comp(T(<<Fix(1)>>), Absent)
LibCOk == LibC(T(<<Fix(6), Fix(5)>>))

Process(static, map) == [static |-> static, map |-> map, mem |-> Memory, prot |-> Relocated]

Processes ==
  {Process(FALSE, <<CompOk, LibCOk, LdSo>>),
   Process(TRUE,  <<App, CompOk, LibCOk>>),
   [Process(FALSE, <<CompOk, LdSo>>) EXCEPT !.mem[2] = Narrow],
   Process(FALSE, <<[CompOk EXCEPT !.dynamic = 0], LibCOk, LdSo>>),
   Process(FALSE, <<Comp(Absent, Absent), LibCOk, LdSo>>),
   Process(FALSE, <<Comp(T(<<Fix(1)>>), Malformed), LibCOk, LdSo>>),
   Process(FALSE, <<CompOk, LibC(Malformed), LdSo>>),
   Process(FALSE, <<[CompOk EXCEPT !.phdrs = FALSE], LdSo>>)}
=============================================================================
