------------------------- MODULE MCCompartmentSetup -------------------------
(* CompartmentSetup with the example's compartment and, as the class allows, *)
(* others that are given other values.  Memory is scaled: pages of 4 words,  *)
(* a uint32_t that holds up to 39, bounds exact up to 6 words and multiples  *)
(* of 2 words above.                                                         *)
EXTENDS CompartmentSetup

Permissions == {"load", "store", "execute", "seal", "unseal", "executive"}

(* The representable region is the bounds with one word on either side.    *)
NearBounds(base, len, a) == a >= base - 1 /\ a <= base + len + 1
EvenBounds(base, len) ==
  IF len <= 6 THEN [base |-> base, len |-> len]
  ELSE LET b == base - (base % 2)
           top == base + len + ((base + len) % 2)
       IN  [base |-> b, len |-> top - b]

Compartments == {"example", "small", "wraps", "high"}
StackSizes == [c \in Compartments |->
                 CASE c = "example" -> 8 [] c = "small" -> 3 [] c = "wraps" -> 38 [] OTHER -> 5]
SealIds == [c \in Compartments |->
                 CASE c = "example" -> 9 [] c = "small" -> 10 [] c = "wraps" -> 12 [] OTHER -> 18]

(* mmap has two places; a mapping of no bytes is EINVAL.                   *)
Places(size) == {m \in {20, 28} : size > 0 /\ m + size <= 36}

Root(perms, base, len) ==
  [tag |-> TRUE, base |-> base, len |-> len, addr |-> base, perms |-> perms, sentry |-> FALSE]
SealRoot == Root({"seal", "unseal"}, 4, 32)
ExecRoot == Root({"load", "execute", "executive"}, 0, 18)

(* Symbols of a library; one lacks the entry point, and in one a function  *)
(* lies where the kernel's capability does not reach.                      *)
Symbol(base, len) ==
  [Root({"load", "execute"}, base, len) EXCEPT !.addr = base + 1, !.sentry = TRUE]
Names == {"CompartmentEntryPoint", "example_add_two_numbers", "example_copy_string_to_heap"}
Good == [f \in Names |-> Symbol(2, 8)]
NoEntry == [f \in Names \ {"CompartmentEntryPoint"} |-> Symbol(2, 8)]
FarFunction == [Good EXCEPT !["example_add_two_numbers"] = Symbol(16, 8)]
SomeLibraries == {Good, NoEntry, FarFunction}
Api == {"example_add_two_numbers", "example_copy_string_to_heap", "not_exported"}
=============================================================================
