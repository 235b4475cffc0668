------------------------------- MODULE MCCapMgr -------------------------------
(* CapMgr with one library of two blocks beside the dynamic linker, which is *)
(* sound, linked with the program, or has a malformed table; symbols that    *)
(* are all there, or of which one is missing; memory of one block; and       *)
(* command lines of up to two arguments.                                     *)
EXTENDS CapMgr

Permissions == {"executive", "load", "store", "execute", "seal", "unseal"}
NearBounds(base, len, a) == base <= a + 2 /\ a <= base + len + 2
Exact(base, len) == [base |-> base, len |-> len]

C(base, len, addr, perms, sentry) ==
  [tag |-> TRUE, base |-> base, len |-> len, addr |-> addr, perms |-> perms, sentry |-> sentry]
Root   == C(0, 16, 0, Permissions, FALSE)
Code   == C(1, 2, 1, {"executive", "load", "execute"}, TRUE)
Data   == C(3, 2, 4, {"executive", "load", "store"}, FALSE)

RX == {"read", "exec"}
RW == {"read", "write"}
Slots == 1 .. 3
PageOfSlot == <<"got", "got", "ld">>

Ok(relocs) == [status |-> "ok", relocs |-> relocs]
Absent     == [status |-> "absent", relocs |-> <<>>]
Malformed  == [status |-> "malformed", relocs |-> <<>>]
Fix(s)     == [slot |-> s, fix |-> TRUE]

Entry(name, loader, load, tables) ==
  [name |-> name, loader |-> loader, phdrs |-> TRUE, dynamic |-> 1, load |-> load,
   tables |-> tables, keep |-> {}]
Comp(rela) == Entry(2, FALSE, <<[flags |-> RX, pages |-> {"text"}],
                                [flags |-> RW, pages |-> {"got"}]>>,
                    <<Ok(<<Fix(1)>>), Absent, rela>>)
Loader == Entry(1, TRUE, <<[flags |-> RW, pages |-> {"ld"}]>>, <<Ok(<<Fix(3)>>), Absent, Absent>>)

Process(static, map) ==
  [static |-> static, map |-> map, mem |-> <<Code, Data, Code>>,
   prot |-> [p \in {"text", "got", "ld"} |-> IF p = "text" THEN RX ELSE RW]]
Processes == {Process(FALSE, <<Comp(Ok(<<Fix(2)>>)), Loader>>),
              Process(TRUE,  <<Comp(Ok(<<Fix(2)>>)), Loader>>),
              Process(FALSE, <<Comp(Malformed), Loader>>)}

Names == {"example_set_compartment_debug_level", "example_add_two_numbers",
          "example_copy_string_to_heap", "example_print_heap_string_and_free",
          "example_dump_struct"}
Symbols == [f \in Names \cup {"CompartmentEntryPoint"} |-> Code]
SomeLibraries == {Symbols, [f \in Names |-> Code],
                  [f \in DOMAIN Symbols \ {"example_add_two_numbers"} |-> Code]}
StackSize == [c \in {"example"} |-> 4]
SealId    == [c \in {"example"} |-> 5]
Places(size) == {8}

Main == {[level |-> l, a |-> 3, b |-> 4, str |-> <<"T", "h", "s">>, num |-> n,
          struct |-> [i |-> 9, b |-> FALSE, c |-> "h"]] : n \in {2, -1}, l \in ALWAYS .. VERBOSE}

Options == {[opt |-> "comp-lib", n |-> 0], [opt |-> "comp-lib", n |-> 1],
            [opt |-> "v", n |-> -1], [opt |-> "v", n |-> 0], [opt |-> "v", n |-> 4],
            [opt |-> "v", n |-> 5], [opt |-> "dump_tables", n |-> 0],
            [opt |-> "other", n |-> 0], [opt |-> "word", n |-> 0]}
Lines == {<<>>} \cup {<<o>> : o \in Options} \cup {<<o, p>> : o, p \in Options}
=============================================================================
