------------------------- MODULE MCCompartmentSwitch -------------------------
(* CompartmentSwitch on the API of example_usage/, with functions that a    *)
(* user of the framework may add: one that calls several services, one that *)
(* calls a service which is not in the manager's table, and one that the    *)
(* library does not export.                                                 *)
EXTENDS CompartmentSwitch

DllApi == {"example_add_two_numbers", "example_copy_string_to_heap",
           "example_print_heap_string_and_free", "example_dump_struct",
           "example_set_compartment_debug_level", "two_services", "unknown_service"}
Api == DllApi \cup {"not_exported"}
SomeScript ==
  [f \in Api |-> CASE f = "example_copy_string_to_heap" -> <<"cheri_malloc">>
                   [] f = "example_print_heap_string_and_free" -> <<"cheri_free">>
                   [] f = "two_services" -> <<"cheri_malloc", "cheri_free">>
                   [] f = "unknown_service" -> <<"cheri_malloc", "cheri_calloc">>
                   [] OTHER -> <<>>]
Table    == {"cheri_malloc", "cheri_free"}
Services == Table \cup {"cheri_calloc"}

SomeRestricted == {0, -100}
=============================================================================
