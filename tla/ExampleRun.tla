------------------------------ MODULE ExampleRun ------------------------------
(***************************************************************************)
(* What main asks of the example's compartment, as data: five calls of the *)
(* API, what the functions of the compartment compute, the heap that they  *)
(* have through two services of the capability manager, and the buffer     *)
(* that one call allocates and main hands to another.                      *)
(* (main.cpp, example_usage/; how control passes between the sides is the  *)
(* matter of CompartmentSwitch.)                                           *)
(*                                                                         *)
(* A string is a sequence of characters, in memory followed by NUL.  A     *)
(* block of the heap is a sequence of characters; using another index than *)
(* its own is a capability fault, as is the use of NULL.                   *)
(***************************************************************************)
EXTENDS Integers, Sequences

CONSTANTS
  Char, NUL,
  Block, NULL,    \* addresses that malloc may return
  Inputs,         \* what main passes in its calls
  ShortHalf,      \* 2^15: an int16_t is in -ShortHalf .. ShortHalf - 1
  IntHalf,        \* 2^31
  SizeMod         \* size_t is modulo this

Short == -ShortHalf .. ShortHalf - 1
Int32 == -IntHalf .. IntHalf - 1
LOG_LEVEL_FATAL == 0
LOG_LEVEL_VERBOSE == 4

Struct == [i : 0 .. 2 * IntHalf - 1, b : BOOLEAN, c : Char]
Input  == [level : Int32, a : Int32, b : Int32, str : Seq(Char), num : Int32, struct : Struct]

ASSUME ExampleAssumption ==
  /\ NUL \notin Char /\ NULL \notin Block
  /\ ShortHalf \in Nat \ {0} /\ IntHalf \in Nat /\ IntHalf >= ShortHalf
  /\ SizeMod \in Nat
  /\ Inputs \subseteq Input
  (* A string fits into the address space, with what a negative int16_t is *)
  (* as a size_t above it.                                                 *)
  /\ \A x \in Inputs : Len(x.str) + ShortHalf < SizeMod

(* Conversions to the signed types, and of those to size_t.                *)
(* Mutant: the argument is passed on unconverted.                          *)
SignedNot(n, half) == n
Signed(n, half) == ((n + half) % (2 * half)) - half
ToSize(n)       == IF n < 0 THEN n + SizeMod ELSE n

VARIABLES
  pc,           \* the code that runs next
  call,         \* main's call, in the order of the program
  input,        \* what main passes
  data,         \* the argument object of the call
  g_log_level,  \* of the compartment's logger
  heap,         \* the allocated blocks and what is in them
  sz_bytes,     \* argument of the service call
  mem_buff,     \* what the service returned
  results,      \* what main got of its calls
  stdout,       \* what the compartment printed, log messages aside
  exhausted     \* history: malloc has failed

vars == <<pc, call, input, data, g_log_level, heap, sz_bytes, mem_buff, results, stdout, exhausted>>

None == "none"             \* what a void function returns
NoData == [none |-> None]
Api  == 1 .. 5
set_level == 1  add == 2  copy == 3  print == 4  dump == 5

Init ==
  /\ pc = "main" /\ call = set_level
  /\ input \in Inputs
  /\ data = NoData
  /\ g_log_level = LOG_LEVEL_VERBOSE
  /\ heap = [x \in {} |-> <<>>]
  /\ sz_bytes = 0 /\ mem_buff = NULL
  /\ results = <<>>
  /\ stdout = <<>>
  /\ exhausted = FALSE
------------------------------------------------------------------------------
(* main and the proxy: the constructor of the argument object converts its *)
(* arguments.  buff is passed on whatever it is.                           *)
Arguments ==
  CASE call = set_level -> [debug_level |-> input.level]
    [] call = add       -> [a |-> input.a, b |-> input.b]
    [] call = copy      -> [str |-> input.str]
    [] call = print     -> [str |-> results[copy],
                            chars_to_print |-> Signed(input.num, ShortHalf)]
    [] OTHER            -> [data |-> input.struct]

CallApiFn ==
  /\ pc = "main" /\ call \in Api
  /\ data' = Arguments
  /\ pc' = "CallFunction"
  /\ UNCHANGED <<call, input, g_log_level, heap, sz_bytes, mem_buff, results, stdout, exhausted>>

(* The compartment returns r to main, which goes on to the next call.      *)
Returns(r) ==
  /\ results' = Append(results, r)
  /\ call' = call + 1
  /\ data' = NoData
  /\ pc' = "main"

Fault == /\ pc' = "fault"
         /\ UNCHANGED <<call, input, data, g_log_level, heap, sz_bytes, mem_buff, results,
                        stdout, exhausted>>

Runs(f) == pc = "CallFunction" /\ call = f

(* Mutant: the largest level is refused.                                   *)
LevelAcceptedBelow(level) == level >= LOG_LEVEL_FATAL /\ level < LOG_LEVEL_VERBOSE
LevelAccepted(level) == ~(level < LOG_LEVEL_FATAL \/ level > LOG_LEVEL_VERBOSE)

example_set_compartment_debug_level ==
  /\ Runs(set_level)
  /\ g_log_level' = (IF LevelAccepted(data.debug_level) THEN data.debug_level ELSE g_log_level)
  /\ Returns(LevelAccepted(data.debug_level))
  /\ UNCHANGED <<input, heap, sz_bytes, mem_buff, stdout, exhausted>>

(* Signed overflow: any result.                                            *)
Sum(a, b) == IF a + b \in Int32 THEN {a + b} ELSE Int32

example_add_two_numbers ==
  /\ Runs(add)
  /\ \E c \in Sum(data.a, data.b) : Returns(c)
  /\ UNCHANGED <<input, g_log_level, heap, sz_bytes, mem_buff, stdout, exhausted>>

(* The number of characters before the first NUL.                          *)
strlen(b) == CHOOSE n \in 0 .. Len(b) - 1 : b[n + 1] = NUL /\ \A i \in 1 .. n : b[i] # NUL
CString(s) == Append(s, NUL)

(* Mutant: no room for the terminating NUL.                                *)
SizeToCopyShort(s) == Len(s)
SizeToCopy(s)      == Len(s) + 1

example_copy_string_to_heap ==
  /\ Runs(copy)
  /\ sz_bytes' = SizeToCopy(data.str)
  /\ pc' = "cheri_malloc"
  /\ UNCHANGED <<call, input, data, g_log_level, heap, mem_buff, results, stdout, exhausted>>

(* CallServiceFunction: malloc, and the memory is cleared; or NULL.        *)
cheri_malloc ==
  /\ pc = "cheri_malloc"
  /\ \/ \E p \in Block \ DOMAIN heap :
          /\ heap' = [q \in DOMAIN heap \cup {p} |->
                        IF q = p THEN [i \in 1 .. sz_bytes |-> NUL] ELSE heap[q]]
          /\ mem_buff' = p
          /\ UNCHANGED exhausted
     \/ /\ mem_buff' = NULL
        /\ exhausted' = TRUE
        /\ UNCHANGED heap
  /\ pc' = "strcpy"
  /\ UNCHANGED <<call, input, data, g_log_level, sz_bytes, results, stdout>>

(* example_copy_string_to_heap after its service call.                     *)
CopyString ==
  /\ pc = "strcpy" /\ mem_buff # NULL
  /\ Len(CString(data.str)) <= Len(heap[mem_buff])
  /\ heap' = [heap EXCEPT ![mem_buff] = [i \in 1 .. Len(@) |->
                IF i <= Len(CString(data.str)) THEN CString(data.str)[i] ELSE @[i]]]
  /\ Returns(mem_buff)
  /\ UNCHANGED <<input, g_log_level, sz_bytes, mem_buff, stdout, exhausted>>

NoMemory ==
  /\ pc = "strcpy" /\ mem_buff = NULL
  /\ Returns(NULL)
  /\ UNCHANGED <<input, g_log_level, heap, sz_bytes, mem_buff, stdout, exhausted>>

(* Mutants: the comparison is of signed integers; the wrong way round.     *)
PositionSwapped(chars, sz) == IF ToSize(chars) > sz THEN ToSize(chars) ELSE sz
PositionSigned(chars, sz) == IF chars < sz THEN chars ELSE sz
Position(chars, sz)       == IF ToSize(chars) < sz THEN ToSize(chars) ELSE sz

(* Mutant: the character is not put back.                                  *)
PutBackNot(b, posn, c) == b
PutBack(b, posn, c)    == [b EXCEPT ![posn + 1] = c]

(* The string is cut for printf, restored, and given to the free service.  *)
example_print_heap_string_and_free ==
  /\ Runs(print) /\ data.str \in DOMAIN heap
  /\ LET str  == heap[data.str]
         posn == Position(data.chars_to_print, strlen(str))
         cut  == [str EXCEPT ![posn + 1] = NUL]
     IN  /\ posn + 1 \in DOMAIN str
         /\ stdout' = Append(stdout, SubSeq(cut, 1, strlen(cut)))
         /\ heap' = [heap EXCEPT ![data.str] = PutBack(cut, posn, str[posn + 1])]
  /\ pc' = "cheri_free"
  /\ UNCHANGED <<call, input, data, g_log_level, sz_bytes, mem_buff, results, exhausted>>

(* strcpy past the end of the block; strlen(NULL); an index that is not in *)
(* the block.                                                              *)
BeyondBounds ==
  \/ /\ pc = "strcpy" /\ mem_buff # NULL
     /\ Len(CString(data.str)) > Len(heap[mem_buff])
  \/ /\ Runs(print)
     /\ data.str \in DOMAIN heap =>
          Position(data.chars_to_print, strlen(heap[data.str])) + 1 \notin DOMAIN heap[data.str]
CapabilityFault == BeyondBounds /\ Fault

(* Mutant: the buffer is left to its caller.                               *)
FreedNot(p) == DOMAIN heap
Freed(p)    == DOMAIN heap \ {p}

(* CallServiceFunction: free.  Then the function returns true.             *)
cheri_free ==
  /\ pc = "cheri_free"
  /\ heap' = [q \in Freed(data.str) |-> heap[q]]
  /\ pc' = "freed"
  /\ UNCHANGED <<call, input, data, g_log_level, sz_bytes, mem_buff, results, stdout, exhausted>>

PrintReturns ==
  /\ pc = "freed"
  /\ Returns(TRUE)
  /\ UNCHANGED <<input, g_log_level, heap, sz_bytes, mem_buff, stdout, exhausted>>

(* printf of the unsigned i as "%d".                                       *)
example_dump_struct ==
  /\ Runs(dump)
  /\ stdout' = Append(stdout, [data.data EXCEPT !.i = Signed(@, IntHalf)])
  /\ Returns(None)
  /\ UNCHANGED <<input, g_log_level, heap, sz_bytes, mem_buff, exhausted>>

(* main after its calls.                                                   *)
MainEnds ==
  /\ pc = "main" /\ call \notin Api
  /\ pc' = "exit"
  /\ UNCHANGED <<call, input, data, g_log_level, heap, sz_bytes, mem_buff, results, stdout,
                 exhausted>>

Service == cheri_malloc \/ cheri_free
Step ==
  \/ CallApiFn
  \/ example_set_compartment_debug_level \/ example_add_two_numbers
  \/ example_copy_string_to_heap \/ CopyString \/ NoMemory
  \/ example_print_heap_string_and_free \/ PrintReturns \/ CapabilityFault
  \/ example_dump_struct \/ Service \/ MainEnds
Next == Step \/ (pc \in {"exit", "fault"} /\ UNCHANGED vars)

Spec == Init /\ [][Next]_vars
------------------------------------------------------------------------------
(* Properties. *)

Argument(c) ==
  CASE c = set_level -> [debug_level : Int32]
    [] c = add       -> [a : Int32, b : Int32]
    [] c = copy      -> [str : Seq(Char)]
    [] c = print     -> [str : Block \cup {NULL}, chars_to_print : Short]
    [] OTHER         -> [data : Struct]
Result(c) ==
  CASE c = set_level -> BOOLEAN
    [] c = add       -> Int32
    [] c = copy      -> Block \cup {NULL}
    [] c = print     -> {TRUE}
    [] OTHER         -> {None}

(* Types.  What the arguments and the results are is a matter of the call. *)
TypeOK ==
  /\ pc \in {"main", "CallFunction", "cheri_malloc", "strcpy", "cheri_free", "freed",
             "exit", "fault"}
  /\ call \in 1 .. 6
  /\ input \in Inputs
  /\ pc \notin {"main", "exit"} => call \in Api /\ data \in Argument(call)
  /\ g_log_level \in LOG_LEVEL_FATAL .. LOG_LEVEL_VERBOSE
  /\ DOMAIN heap \subseteq Block /\ \A p \in DOMAIN heap : heap[p] \in Seq(Char \cup {NUL})
  /\ sz_bytes \in Nat /\ mem_buff \in Block \cup {NULL}
  /\ exhausted \in BOOLEAN
  /\ Len(results) = call - 1 /\ \A c \in 1 .. call - 1 : results[c] \in Result(c)

(* With memory for it no call faults, whatever main passes: the copy fits  *)
(* into the block, and the position at which the string is cut, a size_t   *)
(* made of an int16_t made of an int, is one of the block's.               *)
FaultOnlyWithoutMemory == pc = "fault" => exhausted

(* Between its calls main has the one block that it was given and has not  *)
(* handed back; what one call allocated the other frees.                   *)
HeapBalanced ==
  /\ pc = "exit" => DOMAIN heap = {}
  /\ pc = "main" => DOMAIN heap = IF call = print THEN {results[copy]} \ {NULL} ELSE {}

(* The buffer is whole again when it is freed: printing a part of it left  *)
(* the string that was copied.                                             *)
StringIntact ==
  pc \in {"cheri_free"} \/ (pc = "main" /\ call = print /\ results[copy] # NULL) =>
    heap[results[copy]] = CString(input.str)

(* What is printed is the beginning of the string that was copied, for     *)
(* every number that main passes: as many characters as the number says    *)
(* once an int16_t has it, modulo 2^16, all of them if there are fewer;    *)
(* and all of them too if the int16_t is negative.                         *)
Shorter(m, n) == IF m < n THEN m ELSE n
CharsPrinted(asked, n) == IF asked < 0 THEN n ELSE Shorter(asked, n)
PrintedAsAsked ==
  stdout # <<>> =>
    \E asked \in Short :
      /\ (input.num - asked) % (2 * ShortHalf) = 0
      /\ stdout[1] = SubSeq(input.str, 1, CharsPrinted(asked, Len(input.str)))

(* What main has as the results of the calls it has made is what they are  *)
(* to compute, where that is defined: the level in force in the            *)
(* compartment, the sum, and, if memory lasts, success.                    *)
ResultsReachMain ==
  pc \in {"main", "exit"} =>
    /\ call > set_level =>
         /\ results[set_level] <=> input.level \in LOG_LEVEL_FATAL .. LOG_LEVEL_VERBOSE
         /\ g_log_level = IF results[set_level] THEN input.level ELSE LOG_LEVEL_VERBOSE
    /\ call > add /\ input.a + input.b \in Int32 => results[add] = input.a + input.b
    /\ call > print => results[print] = TRUE /\ ~exhausted
=============================================================================
