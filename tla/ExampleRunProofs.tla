--------------------------- MODULE ExampleRunProofs ---------------------------
(***************************************************************************)
(* Theorems about ExampleRun.  The inductive invariant follows the block   *)
(* of the heap from the call that allocates it to the call that frees it   *)
(* (Held, Contents), and says that nothing is got past a malloc that has   *)
(* failed but the one call that then faults (Memory).                      *)
(***************************************************************************)
EXTENDS ExampleRun, TLAPS

USE DEF set_level, add, copy, print, dump, Api

(* The remainder, for a positive divisor.                                  *)
LEMMA Remainder ==
  ASSUME NEW n \in Int, NEW d \in Nat, d > 0
  PROVE  n % d \in 0 .. d - 1 /\ (n \in 0 .. d - 1 => n % d = n)
OBVIOUS

(* Less its remainder a number is a multiple of the divisor.               *)
LEMMA Multiple ==
  ASSUME NEW n \in Int, NEW d \in Nat, d > 0
  PROVE  (n - (n % d)) % d = 0
<1>1. n \div d \in Int /\ n % d \in 0 .. d - 1 /\ n = d * (n \div d) + (n % d)
  OBVIOUS
<1>2. ASSUME NEW q \in Int PROVE (d * q) % d = 0
  <2>1. /\ (d * q) % d \in 0 .. d - 1 /\ (d * q) \div d \in Int
        /\ d * q = d * ((d * q) \div d) + ((d * q) % d)
    OBVIOUS
  <2>2. PICK k \in Int : k = (d * q) \div d
    BY <2>1
  <2>3. (d * q) % d = d * (q - k)
    BY <2>1, <2>2
  <2>4. q - k \in Int /\ d * (q - k) < d /\ d * (q - k) >= 0
    BY <2>1, <2>3
  <2>5. q - k = 0
    BY <2>4
  <2> QED BY <2>3, <2>5
<1> QED BY <1>1, <1>2

(* What conversion to a signed type yields: the number itself if the type  *)
(* has it, and in any case one congruent to it.                            *)
LEMMA SignedValue ==
  ASSUME NEW n \in Int, NEW half \in Nat \ {0}
  PROVE  /\ Signed(n, half) \in -half .. half - 1
         /\ n \in -half .. half - 1 => Signed(n, half) = n
<1> DEFINE r == (n + half) % (2 * half)
<1>1. n + half \in Int /\ 2 * half \in Nat /\ 2 * half > 0
  OBVIOUS
<1>2. r \in 0 .. 2 * half - 1 /\ (n + half \in 0 .. 2 * half - 1 => r = n + half)
  BY <1>1, Remainder
<1>3. Signed(n, half) = r - half
  BY DEF Signed
<1> HIDE DEF r
<1> QED BY <1>2, <1>3

LEMMA SignedCongruent ==
  ASSUME NEW n \in Int, NEW half \in Nat \ {0}
  PROVE  (n - Signed(n, half)) % (2 * half) = 0
<1> DEFINE r == (n + half) % (2 * half)
<1>1. n + half \in Int /\ 2 * half \in Nat /\ 2 * half > 0
  OBVIOUS
<1>2. ((n + half) - r) % (2 * half) = 0 /\ r \in Int
  BY <1>1, Multiple, Remainder
<1>3. Signed(n, half) = r - half
  BY DEF Signed
<1> HIDE DEF r
<1>4. n - Signed(n, half) = (n + half) - r
  BY <1>2, <1>3
<1> QED BY <1>2, <1>4

(* The length of what begins with n characters and a NUL.                  *)
LEMMA StrlenIs ==
  ASSUME NEW b \in Seq(Char \cup {NUL}), NEW n \in 0 .. Len(b) - 1,
         b[n + 1] = NUL, \A i \in 1 .. n : b[i] # NUL
  PROVE  strlen(b) = n
<1>1. strlen(b) \in 0 .. Len(b) - 1 /\ b[strlen(b) + 1] = NUL
      /\ \A i \in 1 .. strlen(b) : b[i] # NUL
  BY DEF strlen
<1>2. ~ (strlen(b) < n)
  <2> SUFFICES ASSUME strlen(b) < n PROVE FALSE
    OBVIOUS
  <2>1. strlen(b) + 1 \in 1 .. n
    BY <1>1
  <2> QED BY <2>1, <1>1
<1>3. ~ (n < strlen(b))
  <2> SUFFICES ASSUME n < strlen(b) PROVE FALSE
    OBVIOUS
  <2>1. n + 1 \in 1 .. strlen(b)
    BY <1>1
  <2> QED BY <2>1, <1>1
<1> QED BY <1>1, <1>2, <1>3

(* A string in memory: the string, and NUL.                                *)
LEMMA CStringValue ==
  ASSUME NEW s \in Seq(Char)
  PROVE  /\ CString(s) \in Seq(Char \cup {NUL})
         /\ Len(CString(s)) = Len(s) + 1
         /\ \A i \in 1 .. Len(s) : CString(s)[i] = s[i] /\ s[i] \in Char
         /\ CString(s)[Len(s) + 1] = NUL
         /\ strlen(CString(s)) = Len(s)
<1>1. s \in Seq(Char \cup {NUL}) /\ Len(s) \in Nat
  OBVIOUS
<1>2. CString(s) \in Seq(Char \cup {NUL}) /\ Len(CString(s)) = Len(s) + 1
  BY <1>1 DEF CString
<1>3. \A i \in 1 .. Len(s) : CString(s)[i] = s[i] /\ s[i] \in Char
  BY DEF CString
<1>4. CString(s)[Len(s) + 1] = NUL
  BY DEF CString
<1>5. strlen(CString(s)) = Len(s)
  BY <1>1, <1>2, <1>3, <1>4, StrlenIs, ExampleAssumption
<1> QED BY <1>2, <1>3, <1>4, <1>5

(* The string cut at n: what is printed, and what putting the character    *)
(* back makes of it.                                                       *)
LEMMA CutString ==
  ASSUME NEW s \in Seq(Char), NEW n \in 0 .. Len(s)
  PROVE  LET str == CString(s)
             cut == [str EXCEPT ![n + 1] = NUL]
         IN  /\ n + 1 \in DOMAIN str
             /\ SubSeq(cut, 1, strlen(cut)) = SubSeq(s, 1, n)
             /\ PutBack(cut, n, str[n + 1]) = str
<1> DEFINE str == CString(s)
           cut == [str EXCEPT ![n + 1] = NUL]
<1>1. str \in Seq(Char \cup {NUL}) /\ Len(str) = Len(s) + 1
      /\ \A i \in 1 .. Len(s) : str[i] = s[i] /\ s[i] \in Char
  BY CStringValue
<1> HIDE DEF str
<1>2. DOMAIN str = 1 .. Len(s) + 1 /\ n + 1 \in 1 .. Len(s) + 1
  BY <1>1
<1>3. cut \in Seq(Char \cup {NUL}) /\ Len(cut) = Len(s) + 1
      /\ cut[n + 1] = NUL /\ \A i \in 1 .. n : cut[i] = s[i] /\ s[i] \in Char
  BY <1>1, <1>2
<1>4. PutBack(cut, n, str[n + 1]) = str
  <2>1. str \in [1 .. Len(s) + 1 -> Char \cup {NUL}]
    BY <1>1
  <2> QED BY <2>1, <1>2 DEF PutBack
<1> HIDE DEF cut
<1>5. n \in 0 .. Len(cut) - 1 /\ \A i \in 1 .. n : cut[i] # NUL
  BY <1>3, ExampleAssumption
<1>6. strlen(cut) = n
  BY <1>3, <1>5, StrlenIs
<1>7. SubSeq(cut, 1, n) = SubSeq(s, 1, n)
  BY <1>3
<1> QED BY <1>2, <1>4, <1>6, <1>7 DEF str, cut

(* The position at which the string is cut, for what chars_to_print may be.*)
LEMMA PositionValue ==
  ASSUME NEW c \in Short, NEW sz \in Nat, sz + ShortHalf < SizeMod
  PROVE  /\ Position(c, sz) \in 0 .. sz
         /\ Position(c, sz) = CharsPrinted(c, sz)
<1>1. ShortHalf \in Nat /\ SizeMod \in Nat /\ c \in Int /\ c >= -ShortHalf
  BY ExampleAssumption DEF Short
<1>2. CASE c < 0
  <2>1. ToSize(c) = c + SizeMod
    BY <1>2 DEF ToSize
  <2>2. ~(c + SizeMod < sz)
    BY <1>1
  <2> QED BY <1>1, <1>2, <2>1, <2>2 DEF Position, CharsPrinted
<1>3. CASE c >= 0
  BY <1>1, <1>3 DEF Position, ToSize, CharsPrinted, Shorter
<1> QED BY <1>1, <1>2, <1>3
------------------------------------------------------------------------------
(* The inductive invariant. *)

Held(p) == {p} \ {NULL}

(* The argument object is that of the call, and the services are called by *)
(* the functions that call them.                                           *)
Control ==
  /\ pc \notin {"main", "exit"} => data = Arguments
  /\ pc = "exit" => call = 6
  /\ pc \in {"cheri_malloc", "strcpy"} => call = copy /\ sz_bytes = Len(input.str) + 1
  /\ pc \in {"cheri_free", "freed"} => call = print

(* The blocks there are.                                                   *)
Blocks ==
  pc # "fault" =>
    DOMAIN heap = IF pc = "strcpy" THEN Held(mem_buff)
                  ELSE IF call = print /\ pc # "freed" THEN Held(results[copy]) ELSE {}

(* What is in them.                                                        *)
Contents ==
  /\ pc = "strcpy" /\ mem_buff # NULL => heap[mem_buff] = [i \in 1 .. sz_bytes |-> NUL]
  /\ call = print /\ pc \in {"main", "CallFunction", "cheri_free"} /\ results[copy] # NULL =>
       heap[results[copy]] = CString(input.str)

(* When malloc has failed.                                                 *)
Memory ==
  /\ exhausted => \/ pc = "fault"
                  \/ pc = "strcpy" /\ mem_buff = NULL
                  \/ /\ call = print /\ pc \in {"main", "CallFunction"}
                     /\ results[copy] = NULL
  /\ pc = "fault" => exhausted
  /\ pc = "strcpy" /\ mem_buff = NULL => exhausted
  /\ call = print /\ results[copy] = NULL => exhausted

(* What has been printed, and when.                                        *)
Printed ==
  /\ PrintedAsAsked
  /\ pc # "fault" => (stdout = <<>> <=> ~(call > print \/ pc \in {"cheri_free", "freed"}))

(* What main knows of its calls.                                           *)
Known ==
  /\ call = set_level => g_log_level = LOG_LEVEL_VERBOSE
  /\ call > set_level =>
       /\ results[set_level] <=> input.level \in LOG_LEVEL_FATAL .. LOG_LEVEL_VERBOSE
       /\ g_log_level = IF results[set_level] THEN input.level ELSE LOG_LEVEL_VERBOSE
  /\ call > add /\ input.a + input.b \in Int32 => results[add] = input.a + input.b

(* Results and lines are in sequences.                                     *)
Lists ==
  /\ results \in Seq(BOOLEAN \cup Int32 \cup Block \cup {NULL, None})
  /\ stdout \in Seq(Seq(Char) \cup [i : Int32, b : BOOLEAN, c : Char])

IInv == TypeOK /\ Lists /\ Control /\ Blocks /\ Contents /\ Memory /\ Printed /\ Known

(* What main passes, and what that says of the arguments.                  *)
LEMMA InputFacts ==
  ASSUME TypeOK
  PROVE  /\ input.level \in Int32 /\ input.a \in Int32 /\ input.b \in Int32 /\ input.num \in Int32
         /\ input.str \in Seq(Char) /\ Len(input.str) \in Nat
         /\ Len(input.str) + ShortHalf < SizeMod /\ input.struct \in Struct
         /\ ShortHalf \in Nat \ {0} /\ IntHalf \in Nat \ {0} /\ IntHalf >= ShortHalf
         /\ NULL \notin Block
<1>1. input \in Input
  BY ExampleAssumption DEF TypeOK
<1>2. Len(input.str) + ShortHalf < SizeMod
  BY ExampleAssumption DEF TypeOK
<1>3. ShortHalf \in Nat \ {0} /\ IntHalf \in Nat \ {0} /\ IntHalf >= ShortHalf /\ NULL \notin Block
  BY ExampleAssumption
<1> QED BY <1>1, <1>2, <1>3 DEF Input

(* A call that returns: what is appended, and what stays.                  *)
LEMMA ReturnKeeps ==
  ASSUME IInv, call \in Api, NEW r \in Result(call), Returns(r)
  PROVE  /\ results' \in Seq(BOOLEAN \cup Int32 \cup Block \cup {NULL, None})
         /\ Len(results') = call /\ results'[call] = r
         /\ \A c \in 1 .. call - 1 : results'[c] = results[c]
         /\ call' = call + 1 /\ call' \in 2 .. 6 /\ pc' = "main"
<1>1. r \in BOOLEAN \cup Int32 \cup Block \cup {NULL, None}
  BY DEF Result
<1>2. results \in Seq(BOOLEAN \cup Int32 \cup Block \cup {NULL, None}) /\ Len(results) = call - 1
  BY DEF IInv, Lists, TypeOK
<1>3. results' = Append(results, r) /\ call' = call + 1 /\ pc' = "main"
  BY DEF Returns
<1> QED BY <1>1, <1>2, <1>3

LEMMA ReturnTypes ==
  ASSUME IInv, call \in Api, NEW r \in Result(call), Returns(r)
  PROVE  Len(results') = call' - 1 /\ \A c \in 1 .. call' - 1 : results'[c] \in Result(c)
<1>1. \A c \in 1 .. call - 1 : results[c] \in Result(c)
  BY DEF IInv, TypeOK
<1>2. /\ Len(results') = call /\ results'[call] = r /\ call' = call + 1
      /\ \A c \in 1 .. call - 1 : results'[c] = results[c]
  BY ReturnKeeps
<1>3. ASSUME NEW c \in 1 .. call' - 1 PROVE results'[c] \in Result(c)
  <2>1. CASE c = call
    BY <2>1, <1>2
  <2>2. CASE c \in 1 .. call - 1
    BY <2>2, <1>1, <1>2
  <2> QED BY <2>1, <2>2, <1>2
<1> QED BY <1>2, <1>3
------------------------------------------------------------------------------
LEMMA InitInvariant == Init => IInv
<1> SUFFICES ASSUME Init PROVE IInv
  OBVIOUS
<1>1. /\ input \in Inputs /\ pc = "main" /\ call = 1 /\ results = <<>> /\ stdout = <<>>
      /\ heap = [x \in {} |-> <<>>] /\ ~exhausted /\ g_log_level = LOG_LEVEL_VERBOSE
      /\ sz_bytes = 0 /\ mem_buff = NULL /\ exhausted = FALSE
  BY DEF Init
<1>2. TypeOK
  <2>1. DOMAIN heap = {} /\ Len(results) = 0
    BY <1>1
  <2>2. g_log_level \in LOG_LEVEL_FATAL .. LOG_LEVEL_VERBOSE
    BY <1>1 DEF LOG_LEVEL_FATAL, LOG_LEVEL_VERBOSE
  <2>3. 1 .. call - 1 = {} /\ Len(results) = call - 1 /\ call \in 1 .. 6
    BY <1>1, <2>1
  <2>4. sz_bytes \in Nat /\ mem_buff \in Block \cup {NULL} /\ exhausted \in BOOLEAN
    BY <1>1
  <2> QED BY <1>1, <2>1, <2>2, <2>3, <2>4 DEF TypeOK
<1>3. Lists /\ Control /\ Blocks /\ Contents
  BY <1>1 DEF Lists, Control, Blocks, Contents
<1>4. Memory /\ Printed /\ Known
  BY <1>1 DEF Memory, Printed, PrintedAsAsked, Known
<1> QED BY <1>2, <1>3, <1>4 DEF IInv

(* main makes a call.                                                      *)
LEMMA CallStep ==
  ASSUME IInv, CallApiFn
  PROVE  IInv'
<1> USE DEF CallApiFn
<1>0. /\ pc = "main" /\ pc' = "CallFunction" /\ call \in Api /\ data' = Arguments
      /\ UNCHANGED <<call, input, g_log_level, heap, sz_bytes, mem_buff, results, stdout, exhausted>>
  OBVIOUS
<1>1. Arguments \in Argument(call)
  <2>1. call = print => results[copy] \in Block \cup {NULL}
    BY DEF IInv, TypeOK, Result
  <2>2. Signed(input.num, ShortHalf) \in Short
    <3>1. input.num \in Int /\ ShortHalf \in Nat \ {0}
      BY InputFacts DEF IInv, Int32
    <3> QED BY <3>1, SignedValue DEF Short
  <2>3. /\ input.level \in Int32 /\ input.a \in Int32 /\ input.b \in Int32
        /\ input.str \in Seq(Char) /\ input.struct \in Struct
    BY InputFacts DEF IInv
  <2>4. CASE call = set_level
    BY <2>4, <2>3 DEF Arguments, Argument
  <2>5. CASE call = add
    BY <2>5, <2>3 DEF Arguments, Argument
  <2>6. CASE call = copy
    BY <2>6, <2>3 DEF Arguments, Argument
  <2>7. CASE call = print
    BY <2>7, <2>1, <2>2 DEF Arguments, Argument
  <2>8. CASE call = dump
    BY <2>8, <2>3 DEF Arguments, Argument
  <2> QED BY <1>0, <2>4, <2>5, <2>6, <2>7, <2>8
<1>2. TypeOK'
  <2>1. TypeOK
    BY DEF IInv
  <2> QED BY <1>0, <1>1, <2>1 DEF TypeOK
<1>3. Lists' /\ Blocks' /\ Contents'
  BY <1>0 DEF IInv, Lists, Blocks, Contents
<1>4. Control'
  BY <1>0 DEF IInv, Control, Arguments
<1>5. Memory' /\ Printed' /\ Known'
  BY <1>0 DEF IInv, Memory, Printed, PrintedAsAsked, Known
<1> QED BY <1>2, <1>3, <1>4, <1>5 DEF IInv

(* The calls without a service.                                            *)
LEMMA LevelStep ==
  ASSUME IInv, example_set_compartment_debug_level
  PROVE  IInv'
<1> DEFINE ok == LevelAccepted(data.debug_level)
<1>0. /\ pc = "CallFunction" /\ call = set_level
      /\ g_log_level' = IF ok THEN data.debug_level ELSE g_log_level
      /\ Returns(ok)
      /\ UNCHANGED <<input, heap, sz_bytes, mem_buff, stdout, exhausted>>
  BY DEF example_set_compartment_debug_level, Runs
<1>1. data.debug_level = input.level /\ input.level \in Int
  BY <1>0, InputFacts DEF IInv, Control, Arguments, Int32
<1>2. ok <=> input.level \in LOG_LEVEL_FATAL .. LOG_LEVEL_VERBOSE
  BY <1>1 DEF LevelAccepted, LOG_LEVEL_FATAL, LOG_LEVEL_VERBOSE
<1>3. ok \in BOOLEAN
  BY DEF LevelAccepted
<1> HIDE DEF ok
<1>4. /\ results' \in Seq(BOOLEAN \cup Int32 \cup Block \cup {NULL, None})
      /\ results'[1] = ok /\ call' = 2 /\ pc' = "main"
  BY <1>0, <1>3, ReturnKeeps DEF Result
<1>5. Len(results') = call' - 1 /\ \A c \in 1 .. call' - 1 : results'[c] \in Result(c)
  BY <1>0, <1>3, ReturnTypes DEF Result
<1>6. g_log_level' = (IF results'[1] THEN input.level ELSE LOG_LEVEL_VERBOSE)
  BY <1>0, <1>1, <1>4 DEF IInv, Known
<1>7. TypeOK'
  <2>1. g_log_level' \in LOG_LEVEL_FATAL .. LOG_LEVEL_VERBOSE
    BY <1>2, <1>4, <1>6 DEF LOG_LEVEL_FATAL, LOG_LEVEL_VERBOSE
  <2>2. TypeOK
    BY DEF IInv
  <2> QED BY <1>0, <1>4, <1>5, <2>1, <2>2 DEF TypeOK
<1>8. Lists' /\ Control' /\ Blocks' /\ Contents'
  BY <1>0, <1>4 DEF IInv, Lists, Control, Blocks, Contents
<1>9. Memory' /\ Printed'
  BY <1>0, <1>4 DEF IInv, Memory, Printed, PrintedAsAsked
<1>10. Known'
  BY <1>0, <1>2, <1>4, <1>6 DEF Known
<1> QED BY <1>7, <1>8, <1>9, <1>10 DEF IInv

LEMMA AddStep ==
  ASSUME IInv, example_add_two_numbers
  PROVE  IInv'
<1>0. /\ pc = "CallFunction" /\ call = add
      /\ \E c \in Sum(data.a, data.b) : Returns(c)
      /\ UNCHANGED <<input, g_log_level, heap, sz_bytes, mem_buff, stdout, exhausted>>
  BY DEF example_add_two_numbers, Runs
<1>1. data.a = input.a /\ data.b = input.b
  BY <1>0 DEF IInv, Control, Arguments
<1>2. PICK r \in Sum(input.a, input.b) : Returns(r)
  BY <1>0, <1>1
<1>3. r \in Int32 /\ (input.a + input.b \in Int32 => r = input.a + input.b)
  BY <1>2 DEF Sum
<1>4. /\ results' \in Seq(BOOLEAN \cup Int32 \cup Block \cup {NULL, None})
      /\ results'[2] = r /\ results'[1] = results[1] /\ call' = 3 /\ pc' = "main"
  BY <1>0, <1>2, <1>3, ReturnKeeps DEF Result
<1>5. Len(results') = call' - 1 /\ \A c \in 1 .. call' - 1 : results'[c] \in Result(c)
  BY <1>0, <1>2, <1>3, ReturnTypes DEF Result
<1>7. TypeOK'
  <2>2. TypeOK
    BY DEF IInv
  <2> QED BY <1>0, <1>4, <1>5, <2>2 DEF TypeOK
<1>8. Lists' /\ Control' /\ Blocks' /\ Contents'
  BY <1>0, <1>4 DEF IInv, Lists, Control, Blocks, Contents
<1>9. Memory' /\ Printed'
  BY <1>0, <1>4 DEF IInv, Memory, Printed, PrintedAsAsked
<1>10. Known'
  BY <1>0, <1>3, <1>4 DEF IInv, Known
<1> QED BY <1>7, <1>8, <1>9, <1>10 DEF IInv

LEMMA DumpStep ==
  ASSUME IInv, example_dump_struct
  PROVE  IInv'
<1> DEFINE line == [data.data EXCEPT !.i = Signed(@, IntHalf)]
<1>0. /\ pc = "CallFunction" /\ call = dump /\ Returns(None)
      /\ stdout' = Append(stdout, line)
      /\ UNCHANGED <<input, g_log_level, heap, sz_bytes, mem_buff, exhausted>>
  BY DEF example_dump_struct, Runs
<1>1. data.data = input.struct /\ input.struct \in Struct /\ IntHalf \in Nat \ {0}
  BY <1>0, InputFacts DEF IInv, Control, Arguments
<1>2. line \in [i : Int32, b : BOOLEAN, c : Char]
  <2>1. Signed(input.struct.i, IntHalf) \in Int32
    BY <1>1, SignedValue DEF Struct, Int32
  <2> QED BY <1>1, <2>1 DEF Struct
<1> HIDE DEF line
<1>3. /\ stdout' \in Seq(Seq(Char) \cup [i : Int32, b : BOOLEAN, c : Char])
      /\ stdout # <<>> /\ stdout' # <<>> /\ stdout'[1] = stdout[1]
  BY <1>0, <1>2 DEF IInv, Lists, Printed
<1>4. /\ results' \in Seq(BOOLEAN \cup Int32 \cup Block \cup {NULL, None})
      /\ \A c \in 1 .. 4 : results'[c] = results[c]
      /\ call' = 6 /\ pc' = "main"
  BY <1>0, ReturnKeeps DEF Result
<1>5. Len(results') = call' - 1 /\ \A c \in 1 .. call' - 1 : results'[c] \in Result(c)
  BY <1>0, ReturnTypes DEF Result
<1>7. TypeOK'
  <2>2. TypeOK
    BY DEF IInv
  <2> QED BY <1>0, <1>4, <1>5, <2>2 DEF TypeOK
<1>8. Lists' /\ Control' /\ Blocks' /\ Contents'
  BY <1>0, <1>3, <1>4 DEF IInv, Lists, Control, Blocks, Contents
<1>9. Memory'
  BY <1>0, <1>4 DEF IInv, Memory
<1>10. Printed'
  BY <1>0, <1>3, <1>4 DEF IInv, Printed, PrintedAsAsked
<1>11. Known'
  BY <1>0, <1>4 DEF IInv, Known
<1> QED BY <1>7, <1>8, <1>9, <1>10, <1>11 DEF IInv

------------------------------------------------------------------------------
(* The call that allocates a block and copies the string to it.            *)
LEMMA CopyStep ==
  ASSUME IInv, example_copy_string_to_heap
  PROVE  IInv'
<1>0. /\ pc = "CallFunction" /\ call = copy /\ pc' = "cheri_malloc"
      /\ sz_bytes' = SizeToCopy(data.str)
      /\ UNCHANGED <<call, input, data, g_log_level, heap, mem_buff, results, stdout, exhausted>>
  BY DEF example_copy_string_to_heap, Runs
<1>1. data.str = input.str /\ sz_bytes' = Len(input.str) + 1 /\ sz_bytes' \in Nat
  BY <1>0, InputFacts DEF IInv, Control, Arguments, SizeToCopy
<1>2. TypeOK'
  <2>1. TypeOK
    BY DEF IInv
  <2> QED BY <1>0, <1>1, <2>1 DEF TypeOK
<1>3. Lists' /\ Blocks' /\ Contents'
  BY <1>0 DEF IInv, Lists, Blocks, Contents
<1>4. Control'
  BY <1>0, <1>1 DEF IInv, Control, Arguments
<1>5. Memory' /\ Printed' /\ Known'
  BY <1>0 DEF IInv, Memory, Printed, PrintedAsAsked, Known
<1> QED BY <1>2, <1>3, <1>4, <1>5 DEF IInv

LEMMA MallocStep ==
  ASSUME IInv, cheri_malloc
  PROVE  IInv'
<1>0. /\ pc = "cheri_malloc" /\ pc' = "strcpy"
      /\ UNCHANGED <<call, input, data, g_log_level, sz_bytes, results, stdout>>
  BY DEF cheri_malloc
<1>1. call = copy /\ DOMAIN heap = {} /\ ~exhausted /\ sz_bytes \in Nat
  BY <1>0 DEF IInv, Control, Blocks, Memory, TypeOK
<1>2. CASE /\ mem_buff' = NULL /\ exhausted' = TRUE /\ UNCHANGED heap
  <2>1. TypeOK'
    <3>1. TypeOK
      BY DEF IInv
    <3> QED BY <1>0, <1>1, <1>2, <3>1 DEF TypeOK
  <2>2. Lists' /\ Blocks' /\ Contents'
    BY <1>0, <1>1, <1>2 DEF IInv, Lists, Blocks, Contents, Held
  <2>3. Control'
    BY <1>0, <1>1, <1>2 DEF IInv, Control, Arguments
  <2>4. Memory' /\ Printed' /\ Known'
    BY <1>0, <1>1, <1>2 DEF IInv, Memory, Printed, PrintedAsAsked, Known
  <2> QED BY <2>1, <2>2, <2>3, <2>4 DEF IInv
<1>3. ASSUME NEW p \in Block,
             heap' = [q \in DOMAIN heap \cup {p} |->
                        IF q = p THEN [i \in 1 .. sz_bytes |-> NUL] ELSE heap[q]],
             mem_buff' = p, UNCHANGED exhausted
      PROVE  IInv'
  <2>0. DOMAIN heap' = {p} /\ heap'[p] = [i \in 1 .. sz_bytes |-> NUL] /\ p # NULL
    BY <1>1, <1>3, ExampleAssumption
  <2>1. TypeOK'
    <3>1. heap'[p] \in Seq(Char \cup {NUL})
      BY <1>1, <2>0
    <3>2. TypeOK
      BY DEF IInv
    <3> QED BY <1>0, <1>1, <1>3, <2>0, <3>1, <3>2 DEF TypeOK
  <2>2. Lists' /\ Blocks' /\ Contents'
    BY <1>0, <1>1, <1>3, <2>0 DEF IInv, Lists, Blocks, Contents, Held
  <2>3. Control'
    BY <1>0, <1>1, <1>3 DEF IInv, Control, Arguments
  <2>4. Memory' /\ Printed' /\ Known'
    BY <1>0, <1>1, <1>3, <2>0 DEF IInv, Memory, Printed, PrintedAsAsked, Known
  <2> QED BY <2>1, <2>2, <2>3, <2>4 DEF IInv
<1> QED BY <1>2, <1>3 DEF cheri_malloc

(* The block is as long as the string with its NUL, so the copy fits.      *)
LEMMA CopyFits ==
  ASSUME IInv, pc = "strcpy", mem_buff # NULL
  PROVE  /\ mem_buff \in DOMAIN heap /\ mem_buff \in Block /\ data.str = input.str
         /\ Len(CString(data.str)) = Len(heap[mem_buff])
         /\ heap[mem_buff] = [i \in 1 .. Len(input.str) + 1 |-> NUL]
         /\ Len(heap[mem_buff]) = Len(input.str) + 1
<1>1. data.str = input.str /\ sz_bytes = Len(input.str) + 1
  BY DEF IInv, Control, Arguments
<1>2. heap[mem_buff] = [i \in 1 .. sz_bytes |-> NUL] /\ mem_buff \in DOMAIN heap /\ mem_buff \in Block
  <2>1. heap[mem_buff] = [i \in 1 .. sz_bytes |-> NUL]
    BY DEF IInv, Contents
  <2>2. mem_buff \in DOMAIN heap
    BY DEF IInv, Blocks, Held
  <2>3. mem_buff \in Block
    BY DEF IInv, TypeOK
  <2> QED BY <2>1, <2>2, <2>3
<1>3. input.str \in Seq(Char) /\ Len(input.str) \in Nat
  BY InputFacts DEF IInv
<1>4. Len(CString(input.str)) = Len(input.str) + 1
  BY <1>3, CStringValue
<1>5. Len(heap[mem_buff]) = Len(input.str) + 1
  BY <1>1, <1>2, <1>3
<1> QED BY <1>1, <1>2, <1>4, <1>5

LEMMA CopyStringStep ==
  ASSUME IInv, CopyString
  PROVE  IInv'
<1>0. /\ pc = "strcpy" /\ mem_buff # NULL /\ Returns(mem_buff)
      /\ heap' = [heap EXCEPT ![mem_buff] = [i \in 1 .. Len(heap[mem_buff]) |->
                   IF i <= Len(CString(data.str)) THEN CString(data.str)[i] ELSE heap[mem_buff][i]]]
      /\ UNCHANGED <<input, g_log_level, sz_bytes, mem_buff, stdout, exhausted>>
  BY DEF CopyString
<1>1. call = copy /\ ~exhausted /\ DOMAIN heap = {mem_buff} /\ mem_buff \in Block
  BY <1>0, CopyFits DEF IInv, Control, Blocks, Memory, Held
<1>2. DOMAIN heap' = {mem_buff} /\ heap'[mem_buff] = CString(input.str)
      /\ CString(input.str) \in Seq(Char \cup {NUL})
  <2>1. input.str \in Seq(Char) /\ Len(input.str) \in Nat
    BY InputFacts DEF IInv
  <2>2. CString(input.str) \in Seq(Char \cup {NUL}) /\ Len(CString(input.str)) = Len(input.str) + 1
    BY <2>1, CStringValue
  <2>3. heap'[mem_buff] = [i \in 1 .. Len(CString(input.str)) |-> CString(input.str)[i]]
    BY <1>0, <1>1, <2>1, <2>2, CopyFits
  <2>4. CString(input.str) = [i \in 1 .. Len(CString(input.str)) |-> CString(input.str)[i]]
    BY <2>2
  <2> QED BY <1>0, <1>1, <2>2, <2>3, <2>4
<1>3. mem_buff \in Result(call)
  BY <1>1 DEF Result
<1>4. /\ results' \in Seq(BOOLEAN \cup Int32 \cup Block \cup {NULL, None})
      /\ \A c \in 1 .. 2 : results'[c] = results[c]
      /\ results'[3] = mem_buff /\ call' = 4 /\ pc' = "main"
  BY <1>0, <1>1, <1>3, ReturnKeeps
<1>5. Len(results') = call' - 1 /\ \A c \in 1 .. call' - 1 : results'[c] \in Result(c)
  BY <1>0, <1>1, <1>3, ReturnTypes
<1>6. TypeOK'
  <2>1. TypeOK
    BY DEF IInv
  <2> QED BY <1>0, <1>1, <1>2, <1>4, <1>5, <2>1 DEF TypeOK
<1>7. Lists' /\ Control' /\ Blocks' /\ Contents'
  BY <1>0, <1>1, <1>2, <1>4 DEF IInv, Lists, Control, Blocks, Contents, Held
<1>8. Memory' /\ Printed' /\ Known'
  BY <1>0, <1>1, <1>4 DEF IInv, Memory, Printed, PrintedAsAsked, Known
<1> QED BY <1>6, <1>7, <1>8 DEF IInv

LEMMA NoMemoryStep ==
  ASSUME IInv, NoMemory
  PROVE  IInv'
<1>0. /\ pc = "strcpy" /\ mem_buff = NULL /\ Returns(NULL) /\ call = copy
      /\ UNCHANGED <<input, g_log_level, heap, sz_bytes, mem_buff, stdout, exhausted>>
      /\ DOMAIN heap = {} /\ exhausted
  <2>1. /\ pc = "strcpy" /\ mem_buff = NULL /\ Returns(NULL)
        /\ UNCHANGED <<input, g_log_level, heap, sz_bytes, mem_buff, stdout, exhausted>>
    BY DEF NoMemory
  <2>2. call = copy /\ exhausted
    BY <2>1 DEF IInv, Control, Memory
  <2>3. DOMAIN heap = {}
    BY <2>1 DEF IInv, Blocks, Held
  <2> QED BY <2>1, <2>2, <2>3
<1>4. /\ results' \in Seq(BOOLEAN \cup Int32 \cup Block \cup {NULL, None})
      /\ \A c \in 1 .. 2 : results'[c] = results[c]
      /\ results'[3] = NULL /\ call' = 4 /\ pc' = "main"
  BY <1>0, ReturnKeeps DEF Result
<1>5. Len(results') = call' - 1 /\ \A c \in 1 .. call' - 1 : results'[c] \in Result(c)
  BY <1>0, ReturnTypes DEF Result
<1>6. TypeOK'
  <2>1. TypeOK
    BY DEF IInv
  <2> QED BY <1>0, <1>4, <1>5, <2>1 DEF TypeOK
<1>7. Lists' /\ Control' /\ Blocks' /\ Contents'
  BY <1>0, <1>4 DEF IInv, Lists, Control, Blocks, Contents, Held
<1>8. Memory' /\ Printed' /\ Known'
  BY <1>0, <1>4 DEF IInv, Memory, Printed, PrintedAsAsked, Known
<1> QED BY <1>6, <1>7, <1>8 DEF IInv

------------------------------------------------------------------------------
(* The call that prints the string and frees the block.                    *)

(* In it the argument is NULL or a block that holds the string.            *)
LEMMA PrintArgument ==
  ASSUME IInv, Runs(print)
  PROVE  /\ data.str = results[copy] /\ data.chars_to_print = Signed(input.num, ShortHalf)
         /\ data.chars_to_print \in Short
         /\ (input.num - data.chars_to_print) % (2 * ShortHalf) = 0
         /\ data.str \in DOMAIN heap <=> data.str # NULL
         /\ data.str # NULL => /\ data.str \in Block /\ DOMAIN heap = {data.str}
                               /\ heap[data.str] = CString(input.str) /\ ~exhausted
         /\ data.str = NULL => exhausted
<1>1. pc = "CallFunction" /\ call = print
  BY DEF Runs
<1>2. data.str = results[copy] /\ data.chars_to_print = Signed(input.num, ShortHalf)
  BY <1>1 DEF IInv, Control, Arguments
<1>3. input.num \in Int /\ ShortHalf \in Nat \ {0}
  BY InputFacts DEF IInv, Int32
<1>4. /\ Signed(input.num, ShortHalf) \in Short
      /\ (input.num - Signed(input.num, ShortHalf)) % (2 * ShortHalf) = 0
  BY <1>3, SignedValue, SignedCongruent DEF Short
<1>5. DOMAIN heap = Held(results[copy])
  BY <1>1 DEF IInv, Blocks
<1>6. results[copy] # NULL => heap[results[copy]] = CString(input.str)
  BY <1>1 DEF IInv, Contents
<1>7. exhausted <=> results[copy] = NULL
  BY <1>1 DEF IInv, Memory
<1>8. results[copy] \in Block \cup {NULL}
  BY <1>1 DEF IInv, TypeOK, Result
<1> QED BY <1>2, <1>4, <1>5, <1>6, <1>7, <1>8 DEF Held

(* The position is one of the string.                                      *)
LEMMA PrintPosition ==
  ASSUME IInv, Runs(print), data.str # NULL
  PROVE  LET posn == Position(data.chars_to_print, strlen(heap[data.str]))
         IN  /\ posn \in 0 .. Len(input.str)
             /\ posn = CharsPrinted(data.chars_to_print, Len(input.str))
<1>1. input.str \in Seq(Char) /\ Len(input.str) \in Nat /\ Len(input.str) + ShortHalf < SizeMod
  BY InputFacts DEF IInv
<1>2. strlen(heap[data.str]) = Len(input.str)
  BY <1>1, PrintArgument, CStringValue
<1> QED BY <1>1, <1>2, PrintArgument, PositionValue

LEMMA PrintStep ==
  ASSUME IInv, example_print_heap_string_and_free
  PROVE  IInv'
<1> DEFINE str == CString(input.str)
           posn == Position(data.chars_to_print, strlen(str))
           cut == [str EXCEPT ![posn + 1] = NUL]
           line == SubSeq(cut, 1, strlen(cut))
<1>0. /\ Runs(print) /\ data.str \in DOMAIN heap /\ pc' = "cheri_free"
      /\ UNCHANGED <<call, input, data, g_log_level, sz_bytes, mem_buff, results, exhausted>>
  BY DEF example_print_heap_string_and_free
<1>1. /\ pc = "CallFunction" /\ call = print /\ data.str = results[copy] /\ data.str # NULL
      /\ data.str \in Block /\ DOMAIN heap = {data.str} /\ heap[data.str] = str /\ ~exhausted
  BY <1>0, PrintArgument DEF Runs
<1>2. posn \in 0 .. Len(input.str) /\ posn = CharsPrinted(data.chars_to_print, Len(input.str))
  BY <1>0, <1>1, PrintPosition
<1>3. input.str \in Seq(Char)
  BY InputFacts DEF IInv
<1>4. line = SubSeq(input.str, 1, posn) /\ PutBack(cut, posn, str[posn + 1]) = str
  <2> HIDE DEF posn
  <2> QED BY <1>2, <1>3, CutString
<1>5. /\ stdout' = Append(stdout, line)
      /\ heap' = [heap EXCEPT ![data.str] = PutBack(cut, posn, str[posn + 1])]
  BY <1>1 DEF example_print_heap_string_and_free
<1> HIDE DEF line, cut, posn
<1>6. DOMAIN heap' = {data.str} /\ heap'[data.str] = str
  BY <1>1, <1>4, <1>5
<1>7. stdout = <<>>
  BY <1>1 DEF IInv, Printed
<1>8. /\ stdout' \in Seq(Seq(Char) \cup [i : Int32, b : BOOLEAN, c : Char])
      /\ stdout' # <<>> /\ stdout'[1] = SubSeq(input.str, 1, posn)
  <2>1. SubSeq(input.str, 1, posn) \in Seq(Char)
    BY <1>2, <1>3
  <2> QED BY <2>1, <1>4, <1>5, <1>7
<1> HIDE DEF str
<1>9. TypeOK'
  <2>1. TypeOK /\ heap[data.str] \in Seq(Char \cup {NUL})
    BY <1>1 DEF IInv, TypeOK
  <2> QED BY <1>0, <1>1, <1>6, <2>1 DEF TypeOK
<1>10. Lists' /\ Control'
  BY <1>0, <1>1, <1>8 DEF IInv, Lists, Control, Arguments
<1>11. Blocks' /\ Contents'
  BY <1>0, <1>1, <1>6 DEF Blocks, Contents, Held, str
<1>12. Memory' /\ Known'
  BY <1>0, <1>1 DEF IInv, Memory, Known
<1>13. Printed'
  <2>1. data.chars_to_print \in Short /\ (input.num - data.chars_to_print) % (2 * ShortHalf) = 0
    BY <1>0, PrintArgument
  <2>2. stdout'[1] = SubSeq(input.str, 1, CharsPrinted(data.chars_to_print, Len(input.str)))
    BY <1>2, <1>8
  <2> QED BY <1>0, <1>1, <1>8, <2>1, <2>2 DEF Printed, PrintedAsAsked
<1> QED BY <1>9, <1>10, <1>11, <1>12, <1>13 DEF IInv

LEMMA FreeStep ==
  ASSUME IInv, cheri_free
  PROVE  IInv'
<1>0. /\ pc = "cheri_free" /\ pc' = "freed" /\ heap' = [q \in DOMAIN heap \ {data.str} |-> heap[q]]
      /\ UNCHANGED <<call, input, data, g_log_level, sz_bytes, mem_buff, results, stdout, exhausted>>
  BY DEF cheri_free, Freed
<1>1. call = print /\ data.str = results[copy] /\ ~exhausted
  BY <1>0 DEF IInv, Control, Arguments, Memory
<1>2. DOMAIN heap' = {}
  BY <1>0, <1>1 DEF IInv, Blocks, Held
<1>3. TypeOK'
  <2>1. TypeOK
    BY DEF IInv
  <2> QED BY <1>0, <1>1, <1>2, <2>1 DEF TypeOK
<1>4. Lists' /\ Blocks' /\ Contents'
  BY <1>0, <1>1, <1>2 DEF IInv, Lists, Blocks, Contents
<1>5. Control'
  BY <1>0, <1>1 DEF IInv, Control, Arguments
<1>6. Memory' /\ Printed' /\ Known'
  BY <1>0, <1>1 DEF IInv, Memory, Printed, PrintedAsAsked, Known
<1> QED BY <1>3, <1>4, <1>5, <1>6 DEF IInv

LEMMA PrintReturnsStep ==
  ASSUME IInv, PrintReturns
  PROVE  IInv'
<1>0. /\ pc = "freed" /\ call = print /\ Returns(TRUE)
      /\ UNCHANGED <<input, g_log_level, heap, sz_bytes, mem_buff, stdout, exhausted>>
  BY DEF PrintReturns, IInv, Control
<1>1. DOMAIN heap = {} /\ ~exhausted
  BY <1>0 DEF IInv, Blocks, Memory
<1> DEFINE r == TRUE
<1>2. r \in Result(call)
  <2>1. Result(print) = {TRUE}
    BY DEF Result
  <2> QED BY <1>0, <2>1
<1>3. Returns(r)
  BY <1>0, Zenon
<1> HIDE DEF r
<1>4. /\ results' \in Seq(BOOLEAN \cup Int32 \cup Block \cup {NULL, None})
      /\ \A c \in 1 .. 3 : results'[c] = results[c]
      /\ results'[4] = r /\ call' = 5 /\ pc' = "main"
  BY <1>0, <1>2, <1>3, ReturnKeeps
<1>5. Len(results') = call' - 1 /\ \A c \in 1 .. call' - 1 : results'[c] \in Result(c)
  BY <1>0, <1>2, <1>3, ReturnTypes
<1>6. TypeOK'
  <2>1. TypeOK
    BY DEF IInv
  <2> QED BY <1>0, <1>4, <1>5, <2>1 DEF TypeOK
<1>7. Lists' /\ Control' /\ Blocks' /\ Contents'
  BY <1>0, <1>1, <1>4 DEF IInv, Lists, Control, Blocks, Contents
<1>8. Memory' /\ Printed' /\ Known'
  BY <1>0, <1>1, <1>4 DEF IInv, Memory, Printed, PrintedAsAsked, Known
<1> QED BY <1>6, <1>7, <1>8 DEF IInv
------------------------------------------------------------------------------
(* A fault: only of the call that was given NULL.                          *)
LEMMA FaultStep ==
  ASSUME IInv, CapabilityFault
  PROVE  IInv'
<1>0. /\ BeyondBounds /\ pc' = "fault"
      /\ UNCHANGED <<call, input, data, g_log_level, heap, sz_bytes, mem_buff, results,
                     stdout, exhausted>>
  BY DEF CapabilityFault, Fault
<1>1. ~(pc = "strcpy" /\ mem_buff # NULL /\ Len(CString(data.str)) > Len(heap[mem_buff]))
  <2> SUFFICES ASSUME pc = "strcpy", mem_buff # NULL PROVE Len(CString(data.str)) = Len(heap[mem_buff])
                 /\ Len(heap[mem_buff]) \in Nat
    OBVIOUS
  <2> QED BY CopyFits, InputFacts DEF IInv
<1>2. Runs(print) /\ data.str = NULL
  <2>1. /\ Runs(print)
        /\ data.str \in DOMAIN heap =>
             Position(data.chars_to_print, strlen(heap[data.str])) + 1 \notin DOMAIN heap[data.str]
    BY <1>0, <1>1 DEF BeyondBounds
  <2> SUFFICES ASSUME data.str # NULL PROVE FALSE
    BY <2>1
  <2>2. data.str \in DOMAIN heap /\ heap[data.str] = CString(input.str)
    BY <2>1, PrintArgument
  <2>3. Position(data.chars_to_print, strlen(heap[data.str])) \in 0 .. Len(input.str)
    BY <2>1, PrintPosition
  <2>4. input.str \in Seq(Char)
    BY InputFacts DEF IInv
  <2>5. Position(data.chars_to_print, strlen(heap[data.str])) + 1 \in DOMAIN CString(input.str)
    BY <2>3, <2>4, CutString
  <2> QED BY <2>1, <2>2, <2>5
<1>3. pc = "CallFunction" /\ call = print /\ exhausted
  BY <1>2, PrintArgument DEF Runs
<1>4. TypeOK'
  <2>1. TypeOK
    BY DEF IInv
  <2> QED BY <1>0, <1>3, <2>1 DEF TypeOK
<1>5. Lists' /\ Blocks' /\ Contents'
  BY <1>0, <1>3 DEF IInv, Lists, Blocks, Contents
<1>6. Control'
  BY <1>0, <1>3 DEF IInv, Control, Arguments
<1>7. Memory' /\ Printed' /\ Known'
  BY <1>0, <1>3 DEF IInv, Memory, Printed, PrintedAsAsked, Known
<1> QED BY <1>4, <1>5, <1>6, <1>7 DEF IInv

LEMMA EndStep ==
  ASSUME IInv, MainEnds
  PROVE  IInv'
<1>0. /\ pc = "main" /\ call \notin Api /\ pc' = "exit"
      /\ UNCHANGED <<call, input, data, g_log_level, heap, sz_bytes, mem_buff, results, stdout,
                     exhausted>>
  BY DEF MainEnds
<1>1. call = 6
  BY <1>0 DEF IInv, TypeOK
<1>2. TypeOK'
  <2>1. TypeOK
    BY DEF IInv
  <2> QED BY <1>0, <2>1 DEF TypeOK
<1>3. Lists' /\ Control' /\ Blocks' /\ Contents'
  BY <1>0, <1>1 DEF IInv, Lists, Control, Blocks, Contents
<1>4. Memory' /\ Printed' /\ Known'
  BY <1>0, <1>1 DEF IInv, Memory, Printed, PrintedAsAsked, Known
<1> QED BY <1>2, <1>3, <1>4 DEF IInv
------------------------------------------------------------------------------
LEMMA StepInvariant == IInv /\ [Next]_vars => IInv'
<1> SUFFICES ASSUME IInv, [Next]_vars PROVE IInv'
  OBVIOUS
<1>1. CASE CallApiFn
  BY <1>1, CallStep
<1>2. CASE example_set_compartment_debug_level
  BY <1>2, LevelStep
<1>3. CASE example_add_two_numbers
  BY <1>3, AddStep
<1>4. CASE example_copy_string_to_heap
  BY <1>4, CopyStep
<1>5. CASE CopyString
  BY <1>5, CopyStringStep
<1>6. CASE NoMemory
  BY <1>6, NoMemoryStep
<1>7. CASE example_print_heap_string_and_free
  BY <1>7, PrintStep
<1>8. CASE PrintReturns
  BY <1>8, PrintReturnsStep
<1>9. CASE CapabilityFault
  BY <1>9, FaultStep
<1>10. CASE example_dump_struct
  BY <1>10, DumpStep
<1>11. CASE Service
  BY <1>11, MallocStep, FreeStep DEF Service
<1>12. CASE MainEnds
  BY <1>12, EndStep
<1>13. CASE UNCHANGED vars
  <2>1. UNCHANGED <<pc, call, input, data, g_log_level, heap, sz_bytes, mem_buff, results,
                    stdout, exhausted>>
    BY <1>13 DEF vars
  <2>2. TypeOK' /\ Lists' /\ Blocks' /\ Contents'
    BY <2>1 DEF IInv, TypeOK, Lists, Blocks, Contents
  <2>3. Control' /\ Memory' /\ Printed' /\ Known'
    BY <2>1 DEF IInv, Control, Arguments, Memory, Printed, PrintedAsAsked, Known
  <2> QED BY <2>2, <2>3 DEF IInv
<1> QED BY <1>1, <1>2, <1>3, <1>4, <1>5, <1>6, <1>7, <1>8, <1>9, <1>10, <1>11, <1>12, <1>13
        DEF Next, Step

LEMMA IInvAlways == Spec => []IInv
BY InitInvariant, StepInvariant, PTL DEF Spec

(* Types, for every int16_t, int and size_t, and every string that fits.   *)
THEOREM ExampleTypeOK == Spec => []TypeOK
<1>1. IInv => TypeOK
  BY DEF IInv
<1> QED BY <1>1, IInvAlways, PTL

(* What the invariant says of main's calls.                                *)
LEMMA InvariantImplies ==
  ASSUME IInv
  PROVE  FaultOnlyWithoutMemory /\ HeapBalanced /\ StringIntact /\ PrintedAsAsked
           /\ ResultsReachMain
<1>1. FaultOnlyWithoutMemory
  BY DEF IInv, Memory, FaultOnlyWithoutMemory
<1>2. HeapBalanced
  BY DEF IInv, Control, Blocks, Held, HeapBalanced
<1>3. StringIntact
  <2> SUFFICES ASSUME \/ pc = "cheri_free"
                      \/ pc = "main" /\ call = print /\ results[copy] # NULL
               PROVE  heap[results[copy]] = CString(input.str)
    BY DEF StringIntact
  <2>1. call = print /\ results[copy] # NULL /\ pc \in {"main", "cheri_free"}
    BY DEF IInv, Control, Memory
  <2> QED BY <2>1 DEF IInv, Contents
<1>4. PrintedAsAsked
  BY DEF IInv, Printed
<1>5. ResultsReachMain
  <2> SUFFICES ASSUME pc \in {"main", "exit"} PROVE ResultsReachMain
    BY DEF ResultsReachMain
  <2>1. call > print => results[print] = TRUE /\ ~exhausted
    <3> SUFFICES ASSUME call > print PROVE results[print] = TRUE /\ ~exhausted
      OBVIOUS
    <3>1. Result(print) = {TRUE}
      BY DEF Result
    <3>2. results[print] \in Result(print)
      BY DEF IInv, TypeOK
    <3>3. ~exhausted
      BY DEF IInv, Memory
    <3> QED BY <3>1, <3>2, <3>3
  <2> QED BY <2>1 DEF IInv, Known, ResultsReachMain
<1> QED BY <1>1, <1>2, <1>3, <1>4, <1>5

(* The copy fits and the cut is in the block: what faults is the use of    *)
(* NULL that a failed malloc returned.                                     *)
THEOREM ExampleFaultOnlyWithoutMemory == Spec => []FaultOnlyWithoutMemory
BY InvariantImplies, IInvAlways, PTL

(* What one call allocated the other frees.                                *)
THEOREM ExampleHeapBalanced == Spec => []HeapBalanced
BY InvariantImplies, IInvAlways, PTL

(* Printing leaves the string as it was.                                   *)
THEOREM ExampleStringIntact == Spec => []StringIntact
BY InvariantImplies, IInvAlways, PTL

(* Whatever number main passes, what is printed is as long as the int16_t  *)
(* that it becomes says, or all of the string.                             *)
THEOREM ExamplePrintedAsAsked == Spec => []PrintedAsAsked
BY InvariantImplies, IInvAlways, PTL

(* Each result is the one of its own call.                                 *)
THEOREM ExampleResultsReachMain == Spec => []ResultsReachMain
BY InvariantImplies, IInvAlways, PTL
=============================================================================
