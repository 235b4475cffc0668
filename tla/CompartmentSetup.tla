--------------------------- MODULE CompartmentSetup ---------------------------
(***************************************************************************)
(* What an object of class CCompartment prepares, and what becomes of it   *)
(* in a call: the constructor maps a stack and derives the capabilities of *)
(* the compartment from those of the process; CallCompartmentFunction      *)
(* seals the argument object; the switcher unseals it; the compartment     *)
(* runs on the stack, uses the object, and seals the arguments of the      *)
(* services it calls.  (capmgr/CCompartment.cpp.)                          *)
(*                                                                         *)
(* No intrinsic fails: it returns a capability without a tag, and the      *)
(* processor faults when that is used, which may be several functions      *)
(* later.  An address is a word of 16 bytes, or an object type.            *)
(***************************************************************************)
EXTENDS Capability

CONSTANTS
  CompartmentId,      \* the compartments that main has a proxy for
  stack_size,         \* stack_size[c] and
  seal_id,            \* seal_id[c]: what their constructor is given
  PageSize,           \* getpagesize()
  SizeMod,            \* bound of uint32_t
  Function,           \* the functions of the compartment API
  Libraries,          \* each: the names that a library exports, and what dlsym gives
  Frame,              \* words of stack that compartment code needs
  MmapAt(_),          \* addresses at which mmap can place a mapping of a size
  MmapPerms,          \* and the permissions that it gives
  Round(_, _),        \* the bounds that are set when (base, len) is asked for
  AT_CHERI_SEAL_CAP,
  AT_CHERI_EXEC_RX_CAP

CompartmentEntryPoint == "CompartmentEntryPoint"
kCompartmentDataPerms   == {"load", "store"}
kCompartmentExecPerms   == {"load", "execute"}
kCompartmentSealerPerms == {"seal", "unseal"}

(* A capability without a tag; what else is in it matters to nothing.      *)
Invalid == [tag |-> FALSE, base |-> 0, len |-> 0, addr |-> 0, perms |-> {}, sentry |-> FALSE]

(* cheri_align_up keeps the type of stack_size.                            *)
MmapSize(c) ==
  LET up == stack_size[c] + PageSize - 1 IN (up - (up % PageSize)) % SizeMod

ASSUME SetupAssumption ==
  /\ {"load", "store", "execute", "seal", "unseal"} \subseteq Perm
  /\ stack_size \in [CompartmentId -> Nat] /\ seal_id \in [CompartmentId -> Address]
  /\ \A c \in CompartmentId : seal_id[c] # 0 /\ seal_id[c] + seal_id[c] + 1 \in Address
  /\ {"load", "store"} \subseteq MmapPerms /\ MmapPerms \subseteq Perm
  /\ PageSize \in Nat \ {0} /\ SizeMod \in Nat \ {0} /\ Frame \in Nat
  /\ "none" \notin CompartmentId
  /\ \A l \in Libraries : \A f \in DOMAIN l : l[f] \in Cap /\ l[f].tag /\ Proper(l[f])
  /\ AT_CHERI_SEAL_CAP \in Cap /\ AT_CHERI_EXEC_RX_CAP \in Cap
  /\ AT_CHERI_SEAL_CAP.tag /\ ~AT_CHERI_SEAL_CAP.sentry
  /\ kCompartmentSealerPerms \subseteq AT_CHERI_SEAL_CAP.perms
  /\ AT_CHERI_EXEC_RX_CAP.tag /\ ~AT_CHERI_EXEC_RX_CAP.sentry
  /\ kCompartmentExecPerms \subseteq AT_CHERI_EXEC_RX_CAP.perms
  (* What is set holds what was asked for, and of a mapping no more than   *)
  (* the mapping: the kernel returns bounds that can be represented.       *)
  /\ \A base, len \in Address : base + len \in Address =>
       LET r == Round(base, len)
       IN  /\ r \in [base : Address, len : Address]
           /\ r.base <= base /\ base + len <= r.base + r.len
  /\ \A c \in CompartmentId : \A m \in MmapAt(MmapSize(c)) :
       /\ MmapSize(c) > 0 /\ m \in Address /\ m + MmapSize(c) \in Address
       /\ MmapSize(c) >= Frame + 2
       /\ Round(m, MmapSize(c) - 1).base = m
       /\ Round(m, MmapSize(c) - 1).len <= MmapSize(c)
------------------------------------------------------------------------------
(* Bounds as the hardware sets them, for a length of any size.             *)
BoundsRounded(c, len) ==
  LET r == Round(c.addr, len)
  IN  [c EXCEPT !.base = r.base, !.len = r.len,
                !.tag = @ /\ ~c.sentry /\ c.base <= r.base /\ r.base + r.len <= c.base + c.len]
SetBounds(c, base, len) == BoundsRounded(AddressSet(c, base), len)

(* Sealed data: an argument object is that of a call or a service call of  *)
(* a compartment; object type 0 is unsealed.                               *)
NoObject == [kind |-> "none", of |-> "none", tag |-> FALSE, otype |-> 0]
ObjectOf(c, kind) == [kind |-> kind, of |-> c, tag |-> TRUE, otype |-> 0]

Authorises(s, perm) ==
  s.tag /\ ~s.sentry /\ perm \in s.perms /\ s.addr >= s.base /\ s.addr < s.base + s.len
Seal(o, s) ==
  [o EXCEPT !.otype = s.addr, !.tag = @ /\ o.otype = 0 /\ Authorises(s, "seal")]
Unseal(o, s) ==
  [o EXCEPT !.otype = 0,
            !.tag = @ /\ o.otype # 0 /\ o.otype = s.addr /\ Authorises(s, "unseal")]

(* What mmap returns when it succeeds.                                     *)
Mapped(m, size) == [tag |-> TRUE, base |-> m, len |-> size, addr |-> m,
                    perms |-> MmapPerms, sentry |-> FALSE]

(* What the constructor derives.  A mapping that failed has no tag, and so *)
(* neither has the stack: the test for a null pointer does not notice it.  *)
(* Mutant: the top of the stack is where the mapping ends.                 *)
TopOfStackAtEnd(m, size) ==
  PermsAnd(AddressSet(SetBounds(Mapped(m, size), m, size - 1), m + size),
           kCompartmentDataPerms)
TopOfStack(m, size) ==
  PermsAnd(AddressSet(SetBounds(Mapped(m, size), m, size - 1), m + size - 2),
           kCompartmentDataPerms)

(* Mutant: the bounds are left as they are.                                *)
SealerCapUnbounded(id) ==
  PermsAnd(AddressSet(AT_CHERI_SEAL_CAP, id), kCompartmentSealerPerms)
SealerCap(id) ==
  PermsAnd(AddressSet(SetBounds(AT_CHERI_SEAL_CAP, id, id + 1), id), kCompartmentSealerPerms)

(* Mutant: only the address of the function is taken over.                 *)
RestrictedEntryNoBounds(fn) ==
  SentryCreate(PermsAnd(AddressSet(AT_CHERI_EXEC_RX_CAP, fn.addr), kCompartmentExecPerms))
RestrictedEntry(fn) ==
  SentryCreate(PermsAnd(SetBoundsAndAddress(AT_CHERI_EXEC_RX_CAP, fn), kCompartmentExecPerms))

VARIABLES
  pc,         \* the code that runs next
  lib,        \* the library that was loaded: an element of Libraries
  this,       \* the compartment that main is calling, and
  fn,         \* the function of it
  mapping,    \* mapping[c]: the stack that was mapped for c, of no words if none was
  csp,        \* m_comp_data.csp of each compartment
  m_sealer_cap, m_comp_entry,
  made,       \* the compartments whose constructor has returned
  fp,         \* data: the function to call in the compartment
  c0, c1, c2, c3 \* the object unsealed; what brr goes to; the object sealed; its sealer

objects   == <<mapping, csp, m_sealer_cap, m_comp_entry, made>>
registers == <<c0, c1, c2, c3>>
vars      == <<pc, lib, this, fn, objects, fp, registers>>

None == "none"
Init ==
  /\ lib \in Libraries
  /\ pc = "main" /\ this = None /\ fn = None
  /\ mapping = [c \in CompartmentId |-> [base |-> 0, len |-> 0]]
  /\ csp = [c \in CompartmentId |-> Invalid]
  /\ m_sealer_cap = csp /\ m_comp_entry = csp
  /\ made = {}
  /\ fp = Invalid
  /\ c0 = NoObject /\ c1 = Invalid /\ c2 = NoObject /\ c3 = Invalid

(* GetDllSymbolByName: what dlsym returns, or null.                        *)
Found(f) == f \in DOMAIN lib

(* A new mapping overlaps no other.                                        *)
Free(m, size) == \A d \in CompartmentId :
  mapping[d].len = 0 \/ m + size <= mapping[d].base \/ mapping[d].base + mapping[d].len <= m

CreateStack(c) ==
  \/ \E m \in MmapAt(MmapSize(c)) :
       /\ Free(m, MmapSize(c))
       /\ mapping' = [mapping EXCEPT ![c] = [base |-> m, len |-> MmapSize(c)]]
       /\ csp' = [csp EXCEPT ![c] = TopOfStack(m, MmapSize(c))]
  \/ csp' = [csp EXCEPT ![c] = Invalid] /\ UNCHANGED mapping      \* MAP_FAILED

(* The constructor.                                                        *)
CCompartment(c) ==
  /\ pc = "main" /\ c \notin made
  /\ CreateStack(c)
  /\ m_sealer_cap' = [m_sealer_cap EXCEPT ![c] = SealerCap(seal_id[c])]
  /\ Found(CompartmentEntryPoint)
  /\ m_comp_entry' = [m_comp_entry EXCEPT ![c] = RestrictedEntry(lib[CompartmentEntryPoint])]
  /\ made' = made \cup {c}
  /\ UNCHANGED <<lib, pc, this, fn, fp, registers>>

(* CCompartmentException, which main does not catch.                       *)
EntryPointNotFound(c) ==
  /\ pc = "main" /\ c \notin made
  /\ CreateStack(c)
  /\ m_sealer_cap' = [m_sealer_cap EXCEPT ![c] = SealerCap(seal_id[c])]
  /\ ~Found(CompartmentEntryPoint)
  /\ pc' = "terminated"
  /\ UNCHANGED <<lib, this, fn, m_comp_entry, made, fp, registers>>

CallCompartmentFunction(c, f) ==
  /\ pc = "main" /\ c \in made
  /\ Found(f)
  /\ this' = c /\ fn' = f
  /\ fp' = RestrictedEntry(lib[f])
  /\ c1' = m_comp_entry[c]
  /\ c2' = Seal(ObjectOf(c, "call"), m_sealer_cap[c])       \* RestrictAndSeal
  /\ c3' = m_sealer_cap[c]
  /\ pc' = "CompartmentSwitchEntry"
  /\ UNCHANGED <<lib, objects, c0>>

FunctionNotFound(c, f) ==
  /\ pc = "main" /\ c \in made
  /\ ~Found(f)
  /\ pc' = "terminated"
  /\ UNCHANGED <<lib, this, fn, objects, fp, registers>>

(* unseal c0, c2, c3; brr c1, which faults if c1 has lost its tag.         *)
CompartmentSwitchEntry ==
  /\ pc = "CompartmentSwitchEntry"
  /\ c0' = Unseal(c2, c3)
  /\ pc' = (IF c1.tag THEN (IF c2.kind = "call" THEN "CompartmentUnwrap"
                                                ELSE "CompartmentServiceHandler")
                      ELSE "fault")
  /\ UNCHANGED <<lib, this, fn, objects, fp, c1, c2, c3>>

HasRoom(s) == s.tag /\ {"load", "store"} \subseteq s.perms
                    /\ s.base <= s.addr - Frame /\ s.addr <= s.base + s.len

(* Stores its frame, loads from the object, and calls the function.        *)
CompartmentUnwrap ==
  /\ pc = "CompartmentUnwrap"
  /\ pc' = (IF HasRoom(csp[this]) /\ c0.tag /\ fp.tag THEN "Function" ELSE "fault")
  /\ UNCHANGED <<lib, this, fn, objects, fp, registers>>

(* Seals with data.sealer_cap; the handler is code of the manager.         *)
CompartmentServiceCallback ==
  /\ pc = "Function"
  /\ c1' = [AT_CHERI_EXEC_RX_CAP EXCEPT !.sentry = TRUE]
  /\ c2' = Seal(ObjectOf(this, "service"), m_sealer_cap[this])
  /\ c3' = m_sealer_cap[this]
  /\ pc' = "CompartmentSwitchEntry"
  /\ UNCHANGED <<lib, this, fn, objects, fp, c0>>

(* It loads from the object, and returns through the switcher, which clears *)
(* all but c0: there the function finds the result in place of the object. *)
CompartmentServiceHandler ==
  /\ pc = "CompartmentServiceHandler"
  /\ \/ c0.tag /\ pc' = "Function" /\ c1' = Invalid /\ c2' = NoObject /\ c3' = Invalid
     \/ ~c0.tag /\ pc' = "fault" /\ UNCHANGED <<c1, c2, c3>>
  /\ UNCHANGED <<lib, this, fn, objects, fp, c0>>

(* Mutant: the registers are not cleared.                                  *)
CompartmentSwitchReturnKeepsThis ==
  /\ pc = "Function"
  /\ pc' = "main"
  /\ this' = None /\ fn' = None /\ fp' = Invalid
  /\ UNCHANGED <<lib, objects, registers>>

(* To main, where the argument object ends; registers are cleared.         *)
CompartmentSwitchReturn ==
  /\ pc = "Function"
  /\ pc' = "main"
  /\ this' = None /\ fn' = None /\ fp' = Invalid
  /\ c0' = NoObject /\ c1' = Invalid /\ c2' = NoObject /\ c3' = Invalid
  /\ UNCHANGED <<lib, objects>>

MainExit == pc = "main" /\ pc' = "exit" /\ UNCHANGED <<lib, this, fn, objects, fp, registers>>
Ended == pc \in {"exit", "terminated", "fault"} /\ UNCHANGED vars

Next ==
  \/ \E c \in CompartmentId :
       CCompartment(c) \/ EntryPointNotFound(c)
         \/ \E f \in Function : CallCompartmentFunction(c, f) \/ FunctionNotFound(c, f)
  \/ CompartmentSwitchEntry \/ CompartmentUnwrap \/ CompartmentServiceCallback
  \/ CompartmentServiceHandler \/ CompartmentSwitchReturn \/ MainExit \/ Ended

Spec == Init /\ [][Next]_vars
------------------------------------------------------------------------------
(* Properties. *)

ObjectType == {NoObject} \cup
  [kind : {"call", "service"}, of : CompartmentId, tag : BOOLEAN, otype : Address]

(* Types; and in main nothing of a call is left in the registers.          *)
TypeOK ==
  /\ pc \in {"main", "CompartmentSwitchEntry", "CompartmentUnwrap", "Function",
             "CompartmentServiceHandler", "exit", "terminated", "fault"}
  /\ lib \in Libraries
  /\ this \in CompartmentId \cup {None}
  /\ fn \in Function \cup {None}
  /\ mapping \in [CompartmentId -> [base : Address, len : Address]]
  /\ csp \in [CompartmentId -> Cap]
  /\ m_sealer_cap \in [CompartmentId -> Cap]
  /\ m_comp_entry \in [CompartmentId -> Cap]
  /\ made \subseteq CompartmentId
  /\ fp \in Cap
  /\ c0 \in ObjectType /\ c1 \in Cap /\ c2 \in ObjectType /\ c3 \in Cap
  /\ pc = "main" => c0 = NoObject /\ c2 = NoObject /\ ~c1.tag /\ ~c3.tag

(* What a call of f in compartment c needs: that its stack was mapped,     *)
(* that the process may seal with all of the range that the constructor    *)
(* asks for, and that the code is what AT_CHERI_EXEC_RX_CAP is for.        *)
SealerRange(c) == Round(seal_id[c], seal_id[c] + 1)
SealerFits(c)  == Within(SealerRange(c), AT_CHERI_SEAL_CAP)
Prepared(c, f) ==
  /\ mapping[c].len > 0
  /\ SealerFits(c)
  /\ Within(lib[CompartmentEntryPoint], AT_CHERI_EXEC_RX_CAP)
  /\ Within(lib[f], AT_CHERI_EXEC_RX_CAP)

(* A call in a compartment whose set-up had what it needs does not fault:  *)
(* the compartment has room on its stack, and every sealed object comes    *)
(* out of the switcher, in both directions, as it was sealed.              *)
FaultOnlyIfUnprepared == pc = "fault" => ~Prepared(this, fn)

(* Nothing in the capability manager looks at what the intrinsics and mmap *)
(* return, but an API function never runs in a compartment whose set-up    *)
(* failed: the call faults on its way there.                               *)
RunsOnlyPrepared ==
  pc \in {"Function", "CompartmentServiceHandler"} =>
    Prepared(this, fn) /\ c0.tag /\ c0.otype = 0 /\ c0.of = this

(* What a compartment is given to run with (design document 2.2 and 4.1):  *)
(* code that is its library's function with its bounds, that neither       *)
(* executes in executive state nor can be stored to; a stack in its own    *)
(* mapping, without execution; a sealer that seals and unseals, with its   *)
(* own identifier as it is, and that reaches over those the constructor    *)
(* asks for and no others of what the kernel's capability covers.  The     *)
(* constructor asks for seal_id + 1 of them (CCompartment.cpp:49), so that *)
(* what other compartments seal with can be among them.                    *)
RestrictedTo(c, f) ==
  c.tag => /\ c.base = lib[f].base /\ c.len = lib[f].len /\ c.addr = lib[f].addr
           /\ c.sentry /\ ~Executive(c) /\ "store" \notin c.perms
SealsWithin(s, c) ==
  s.tag => /\ s.perms \subseteq kCompartmentSealerPerms /\ Within(s, SealerRange(c))
           /\ s.addr = seal_id[c] /\ Authorises(s, "seal") /\ Authorises(s, "unseal")
Privileges ==
  /\ \A c \in made :
       /\ RestrictedTo(m_comp_entry[c], CompartmentEntryPoint)
       /\ csp[c].tag => /\ Within(csp[c], mapping[c])
                        /\ ~Executive(csp[c]) /\ "execute" \notin csp[c].perms
       /\ SealsWithin(m_sealer_cap[c], c)
  /\ fn # None => RestrictedTo(fp, fn)

(* CCompartment.cpp:90-92: a constructor that gets no memory for the stack *)
(* throws, so every compartment that was made has a stack.                 *)
MadeWithStack == \A c \in made : mapping[c].len > 0
=============================================================================
