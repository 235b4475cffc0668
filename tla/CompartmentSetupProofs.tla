------------------------ MODULE CompartmentSetupProofs ------------------------
(***************************************************************************)
(* Theorems about CompartmentSetup.  The inductive invariant says that     *)
(* what a compartment holds is what the constructor derived for it         *)
(* (MadeOnce), and that what a call has in the registers was sealed for it *)
(* (InCall); the lemmas say when these values have a tag.                  *)
(***************************************************************************)
EXTENDS CompartmentSetup, TLAPS

USE DEF None

(* A capability with an address inside its bounds can be represented.      *)
LEMMA InsideRepresentable ==
  ASSUME NEW base \in Address, NEW len \in Address, NEW a \in Address,
         base <= a, a <= base + len
  PROVE  Representable(base, len, a)
BY CapabilityAssumption

LEMMA AddressSetType ==
  ASSUME NEW c \in Cap, NEW a \in Address
  PROVE  AddressSet(c, a) \in Cap
<1>1. Representable(c.base, c.len, a) \in BOOLEAN
  BY CapabilityAssumption DEF Cap
<1> QED BY <1>1 DEF AddressSet, Cap

(* The entry that is made of a symbol: the symbol's bounds and address, if *)
(* the symbol lies within the capability it is derived from, and otherwise *)
(* no tag.                                                                 *)
LEMMA RestrictedEntryValue ==
  ASSUME NEW f \in Cap, f.tag, Proper(f)
  PROVE  /\ RestrictedEntry(f) \in Cap
         /\ RestrictedEntry(f).tag <=> Within(f, AT_CHERI_EXEC_RX_CAP)
         /\ RestrictedEntry(f).base = f.base /\ RestrictedEntry(f).len = f.len
         /\ RestrictedEntry(f).addr = f.addr /\ RestrictedEntry(f).sentry
         /\ RestrictedEntry(f).perms = kCompartmentExecPerms
<1> DEFINE m == AT_CHERI_EXEC_RX_CAP
           a == AddressSet(m, f.base)
           b == BoundsSet(a, f.len)
           d == AddressSet(b, f.addr)
<1>0. m \in Cap /\ m.tag /\ ~m.sentry /\ kCompartmentExecPerms \subseteq m.perms
  BY SetupAssumption
<1>1. a \in Cap /\ a = [m EXCEPT !.addr = f.base, !.tag = a.tag]
  BY <1>0, AddressSetType DEF AddressSet, Cap
<1>2. Within(f, m) => a.tag
  BY <1>0, InsideRepresentable DEF Within, AddressSet, Cap, Address
<1>3. b \in Cap /\ b.base = f.base /\ b.len = f.len /\ ~b.sentry /\ b.perms = m.perms
  BY <1>0, <1>1 DEF BoundsSet, Cap
<1>4. b.tag <=> Within(f, m)
  <2> f.base \in Int /\ f.len \in Int /\ m.base \in Int /\ m.len \in Int
    BY <1>0 DEF Cap, Address
  <2>1. b.tag <=> a.tag /\ m.base <= f.base /\ f.base + f.len <= m.base + m.len
    BY <1>0, <1>1 DEF BoundsSet, Cap
  <2> QED BY <2>1, <1>2 DEF Within
<1>5. Representable(f.base, f.len, f.addr)
  BY DEF Proper
<1>6. d \in Cap /\ (d.tag <=> b.tag) /\ d.base = f.base /\ d.len = f.len /\ d.addr = f.addr
      /\ d.perms = m.perms
  BY <1>3, <1>5, AddressSetType DEF AddressSet, Cap
<1>7. SetBoundsAndAddress(m, f) = d
  <2>1. b.base + (f.addr - f.base) = f.addr
    BY <1>3 DEF Cap, Address
  <2> QED BY <2>1 DEF SetBoundsAndAddress, OffsetSet
<1>8. ~d.sentry
  BY <1>3 DEF AddressSet, Cap
<1>9. RestrictedEntry(f) = SentryCreate(PermsAnd(d, kCompartmentExecPerms))
  BY <1>7 DEF RestrictedEntry
<1> HIDE DEF d
<1> QED BY <1>0, <1>4, <1>6, <1>8, <1>9 DEF SentryCreate, PermsAnd, Cap

(* The sealer of a compartment has a tag if its range fits.                *)
LEMMA SealerCapValue ==
  ASSUME NEW c \in CompartmentId
  PROVE  LET s == SealerCap(seal_id[c])
         IN  /\ s \in Cap
             /\ s.tag <=> SealerFits(c)
             /\ s.addr = seal_id[c] /\ ~s.sentry
             /\ s.perms = kCompartmentSealerPerms
             /\ s.base <= s.addr /\ s.addr < s.base + s.len
             /\ Within(s, SealerRange(c))
<1> DEFINE m == AT_CHERI_SEAL_CAP
           id == seal_id[c]
           a == AddressSet(m, id)
           r == Round(id, id + 1)
           b == BoundsRounded(a, id + 1)
           d == AddressSet(b, id)
<1>0. m \in Cap /\ m.tag /\ ~m.sentry /\ kCompartmentSealerPerms \subseteq m.perms
  BY SetupAssumption
<1>1. id \in Address /\ id + 1 \in Address /\ id + (id + 1) \in Address
  <2>1. id \in Address /\ id + id + 1 \in Address
    BY SetupAssumption
  <2> HIDE DEF id
  <2> QED BY <2>1, CapabilityAssumption DEF Address
<1>2. r.base \in Address /\ r.len \in Address /\ r.base <= id /\ id + (id + 1) <= r.base + r.len
  <2>1. /\ r \in [base : Address, len : Address]
        /\ r.base <= id /\ id + (id + 1) <= r.base + r.len
    BY <1>1, SetupAssumption
  <2> QED BY <2>1
<1> HIDE DEF id
<1>3. a \in Cap /\ a = [m EXCEPT !.addr = id, !.tag = a.tag]
  BY <1>0, <1>1, AddressSetType DEF AddressSet, Cap
<1>4. SealerFits(c) <=> r.base >= m.base /\ r.len + r.base <= m.len + m.base
  BY DEF SealerFits, SealerRange, Within, id
<1>5. SealerFits(c) => a.tag
  BY <1>0, <1>1, <1>2, <1>4, InsideRepresentable DEF AddressSet, Cap, Address
<1>6. b \in Cap /\ b.base = r.base /\ b.len = r.len /\ ~b.sentry /\ b.perms = m.perms
      /\ (b.tag <=> a.tag /\ m.base <= r.base /\ r.base + r.len <= m.base + m.len)
  BY <1>0, <1>1, <1>2, <1>3 DEF BoundsRounded, Cap
<1>7. b.tag <=> SealerFits(c)
  BY <1>0, <1>2, <1>4, <1>5, <1>6 DEF Cap, Address
<1> HIDE DEF b, r
<1>8. Representable(b.base, b.len, id)
  BY <1>1, <1>2, <1>6, InsideRepresentable DEF Address
<1>9. d \in Cap /\ (d.tag <=> b.tag) /\ d.base = b.base /\ d.len = b.len /\ d.addr = id
      /\ d.perms = m.perms /\ ~d.sentry
  BY <1>1, <1>6, <1>8, AddressSetType DEF AddressSet, Cap
<1>10. SealerCap(id) = PermsAnd(d, kCompartmentSealerPerms)
  BY DEF SealerCap, SetBounds, b
<1> HIDE DEF d
<1>11. /\ SealerCap(id) \in Cap
       /\ SealerCap(id).tag <=> SealerFits(c)
       /\ SealerCap(id).addr = id /\ ~SealerCap(id).sentry
       /\ SealerCap(id).perms = kCompartmentSealerPerms
       /\ SealerCap(id).base = r.base /\ SealerCap(id).len = r.len
  BY <1>0, <1>6, <1>7, <1>9, <1>10 DEF PermsAnd, Cap
<1>12. SealerRange(c) = r
  BY DEF SealerRange, r, id
<1>13. Within(SealerCap(id), r)
  BY <1>2, <1>11 DEF Within, Address
<1> QED BY <1>1, <1>2, <1>11, <1>12, <1>13 DEF id, Address

(* The stack made of a mapping lies in it and has room for a frame.        *)
LEMMA TopOfStackValue ==
  ASSUME NEW c \in CompartmentId, NEW m \in MmapAt(MmapSize(c))
  PROVE  LET s == TopOfStack(m, MmapSize(c))
         IN  /\ s \in Cap /\ HasRoom(s)
             /\ Within(s, [base |-> m, len |-> MmapSize(c)])
             /\ s.perms \subseteq kCompartmentDataPerms
<1> DEFINE size == MmapSize(c)
           p == Mapped(m, size)
           a == AddressSet(p, m)
           r == Round(m, size - 1)
           b == BoundsRounded(a, size - 1)
           d == AddressSet(b, m + size - 2)
<1>0. /\ size > 0 /\ m \in Address /\ m + size \in Address /\ size >= Frame + 2
      /\ r.base = m /\ r.len <= size
  BY SetupAssumption
<1>1. size \in Nat /\ Frame \in Nat
  <2>1. stack_size[c] + PageSize - 1 \in Nat /\ PageSize \in Nat \ {0} /\ SizeMod \in Nat \ {0}
        /\ Frame \in Nat
    BY SetupAssumption
  <2>2. \A x \in Int, y \in Nat \ {0} : x % y \in 0 .. y - 1
    OBVIOUS
  <2> DEFINE up == stack_size[c] + PageSize - 1
  <2> HIDE DEF up
  <2>3. up % PageSize \in Int
    BY <2>1, <2>2 DEF up
  <2> DEFINE down == up - (up % PageSize)
  <2>6. down \in Int
    BY <2>1, <2>3 DEF up
  <2> HIDE DEF down
  <2>4. down % SizeMod \in 0 .. SizeMod - 1
    BY <2>1, <2>2, <2>6
  <2>5. size = down % SizeMod
    BY DEF MmapSize, up, down
  <2> QED BY <2>1, <2>4, <2>5
<1> HIDE DEF size
<1>2. m \in Nat /\ size \in Address /\ size - 1 \in Address /\ m + (size - 1) \in Address
      /\ m + size - 2 \in Address
  BY <1>0, <1>1, CapabilityAssumption DEF Address
<1>3. r.len \in Address /\ m + (size - 1) <= m + r.len
  <2>1. r \in [base : Address, len : Address] /\ m + (size - 1) <= r.base + r.len
    BY <1>0, <1>2, SetupAssumption
  <2> QED BY <2>1, <1>0
<1>4. p \in Cap /\ p.tag /\ ~p.sentry /\ p.base = m /\ p.len = size
      /\ {"load", "store"} \subseteq p.perms
  BY <1>0, <1>2, SetupAssumption DEF Mapped, Cap
<1> HIDE DEF p
<1>5. a \in Cap /\ a.tag /\ ~a.sentry /\ a.base = m /\ a.len = size /\ a.addr = m
      /\ a.perms = p.perms
  <2>1. Representable(m, size, m)
    BY <1>0, <1>1, <1>2, InsideRepresentable DEF Address
  <2> QED BY <2>1, <1>0, <1>4, AddressSetType DEF AddressSet, Cap
<1> HIDE DEF a
<1>6. b \in Cap /\ b.tag /\ ~b.sentry /\ b.base = m /\ b.len = r.len /\ b.perms = p.perms
  <2>1. m + r.len <= m + size /\ r.base = m
    BY <1>0, <1>1, <1>2, <1>3 DEF Address
  <2>2. b = [a EXCEPT !.base = r.base, !.len = r.len,
                      !.tag = @ /\ ~a.sentry /\ a.base <= r.base
                              /\ r.base + r.len <= a.base + a.len]
    BY <1>5 DEF BoundsRounded
  <2> HIDE DEF r, b
  <2>3. a.base <= r.base /\ r.base + r.len <= a.base + a.len
    BY <2>1, <1>2, <1>5, <1>3 DEF Address
  <2>4. b = [a EXCEPT !.base = m, !.len = r.len, !.tag = TRUE]
    BY <2>1, <2>2, <2>3, <1>5
  <2> QED BY <2>4, <1>0, <1>3, <1>5 DEF Cap
<1> HIDE DEF b, r
<1>7. d \in Cap /\ d.tag /\ ~d.sentry /\ d.base = m /\ d.len = r.len /\ d.addr = m + size - 2
      /\ d.perms = p.perms
  <2>1. Representable(m, r.len, m + size - 2)
    BY <1>0, <1>1, <1>2, <1>3, InsideRepresentable DEF Address
  <2> QED BY <2>1, <1>2, <1>6, AddressSetType DEF AddressSet, Cap
<1>8. TopOfStack(m, size) = PermsAnd(d, kCompartmentDataPerms)
  BY DEF TopOfStack, SetBounds, b, a, p
<1> HIDE DEF d
<1> DEFINE s == TopOfStack(m, size)
<1>9. s \in Cap /\ s.tag /\ s.base = m /\ s.len = r.len /\ s.addr = m + size - 2
      /\ s.perms = {"load", "store"}
  BY <1>4, <1>7, <1>8 DEF PermsAnd, Cap, kCompartmentDataPerms
<1> HIDE DEF s
<1>10. HasRoom(s)
  BY <1>0, <1>1, <1>2, <1>3, <1>9 DEF HasRoom, Address
<1>11. Within(s, [base |-> m, len |-> size])
  BY <1>0, <1>1, <1>2, <1>3, <1>9 DEF Within, Address
<1> QED BY <1>9, <1>10, <1>11 DEF s, size, kCompartmentDataPerms

(* An object sealed with the sealer of its compartment is the same object  *)
(* when it has been unsealed with it, if the sealer has a tag; else it has *)
(* lost its own.                                                           *)
LEMMA SealUnseal ==
  ASSUME NEW c \in CompartmentId, NEW kind \in {"call", "service"}
  PROVE  LET s == SealerCap(seal_id[c])
             o == Seal(ObjectOf(c, kind), s)
         IN  /\ o \in ObjectType /\ o.kind = kind /\ Unseal(o, s) \in ObjectType
             /\ SealerFits(c) => Unseal(o, s) = ObjectOf(c, kind)
             /\ ~SealerFits(c) => ~Unseal(o, s).tag
<1> DEFINE s == SealerCap(seal_id[c])
           o == Seal(ObjectOf(c, kind), s)
           u == Unseal(o, s)
<1>1. /\ s \in Cap /\ (s.tag <=> SealerFits(c)) /\ s.addr = seal_id[c] /\ ~s.sentry
      /\ s.perms = {"seal", "unseal"} /\ s.base <= s.addr /\ s.addr < s.base + s.len
  BY SealerCapValue DEF kCompartmentSealerPerms
<1>2. seal_id[c] \in Address /\ seal_id[c] # 0
  BY SetupAssumption
<1> HIDE DEF s
<1>3. (Authorises(s, "seal") <=> s.tag) /\ (Authorises(s, "unseal") <=> s.tag) /\ s.tag \in BOOLEAN
  BY <1>1 DEF Authorises, Cap
<1>4. o = [kind |-> kind, of |-> c, tag |-> s.tag, otype |-> seal_id[c]]
  <2>1. o = [ObjectOf(c, kind) EXCEPT !.otype = s.addr,
               !.tag = @ /\ ObjectOf(c, kind).otype = 0 /\ Authorises(s, "seal")]
    BY DEF Seal
  <2>2. CASE s.tag = TRUE
    BY <2>1, <2>2, <1>1, <1>3 DEF ObjectOf
  <2>3. CASE s.tag = FALSE
    BY <2>1, <2>3, <1>1, <1>3 DEF ObjectOf
  <2> QED BY <2>2, <2>3, <1>3
<1> HIDE DEF o
<1>5. u = [kind |-> kind, of |-> c, tag |-> s.tag, otype |-> 0]
  <2>1. u = [o EXCEPT !.otype = 0,
               !.tag = @ /\ o.otype # 0 /\ o.otype = s.addr /\ Authorises(s, "unseal")]
    BY DEF Unseal
  <2>2. CASE s.tag = TRUE
    BY <2>1, <2>2, <1>1, <1>2, <1>3, <1>4
  <2>3. CASE s.tag = FALSE
    BY <2>1, <2>3, <1>1, <1>2, <1>3, <1>4
  <2> QED BY <2>2, <2>3, <1>3
<1>6. 0 \in Address
  BY CapabilityAssumption DEF Address
<1> HIDE DEF u
<1>7. o \in ObjectType /\ o.kind = kind
  BY <1>2, <1>3, <1>4 DEF ObjectType
<1>8. u \in ObjectType /\ u.tag = s.tag
  BY <1>3, <1>5, <1>6 DEF ObjectType
<1>9. s.tag = TRUE => u = ObjectOf(c, kind)
  BY <1>5 DEF ObjectOf
<1> QED BY <1>1, <1>3, <1>7, <1>8, <1>9 DEF s, o, u
------------------------------------------------------------------------------
(* The inductive invariant.                                                *)

Stack(c) ==
  \/ mapping[c].len = 0 /\ csp[c] = Invalid
  \/ \E m \in MmapAt(MmapSize(c)) :
       /\ mapping[c] = [base |-> m, len |-> MmapSize(c)]
       /\ csp[c] = TopOfStack(m, MmapSize(c))
MadeOnce ==
  /\ \A c \in made :
       /\ CompartmentEntryPoint \in DOMAIN lib
       /\ m_sealer_cap[c] = SealerCap(seal_id[c])
       /\ m_comp_entry[c] = RestrictedEntry(lib[CompartmentEntryPoint])
       /\ Stack(c)
  /\ pc # "terminated" => \A c \in CompartmentId \ made : mapping[c].len = 0

Sealed(kind) == c2 = Seal(ObjectOf(this, kind), SealerCap(seal_id[this]))
Unsealed     == c0 = Unseal(c2, SealerCap(seal_id[this]))
Idle         == {"main", "exit", "terminated"}
InCall ==
  IF pc \in Idle THEN this = None /\ fn = None
  ELSE /\ this \in made /\ fn \in Function /\ fn \in DOMAIN lib
       /\ fp = RestrictedEntry(lib[fn])
       /\ pc \notin {"Function", "fault"} => c3 = SealerCap(seal_id[this])
       /\ CASE pc = "CompartmentSwitchEntry" ->
                 \/ Sealed("call") /\ c1 = m_comp_entry[this]
                 \/ Sealed("service") /\ Prepared(this, fn) /\ c1.tag
            [] pc = "CompartmentUnwrap" ->
                 Sealed("call") /\ Unsealed /\ m_comp_entry[this].tag
            [] pc = "CompartmentServiceHandler" ->
                 Sealed("service") /\ Unsealed /\ Prepared(this, fn)
            [] pc = "Function" ->
                 Prepared(this, fn) /\ c0.tag /\ c0.otype = 0 /\ c0.of = this
            [] OTHER -> ~Prepared(this, fn)

IInv == TypeOK /\ MadeOnce /\ InCall

LEMMA InvalidType == Invalid \in Cap
BY CapabilityAssumption DEF Invalid, Cap, Address

(* What a mapping has to do with the tag of the stack.                     *)
LEMMA StackValue ==
  ASSUME TypeOK, NEW c \in CompartmentId, Stack(c)
  PROVE  /\ mapping[c].len > 0 => HasRoom(csp[c])
         /\ mapping[c].len = 0 => ~csp[c].tag
         /\ csp[c].tag => /\ Within(csp[c], mapping[c])
                          /\ csp[c].perms \subseteq kCompartmentDataPerms
<1>1. CASE mapping[c].len = 0 /\ csp[c] = Invalid
  BY <1>1 DEF Invalid
<1>2. CASE \E m \in MmapAt(MmapSize(c)) :
             /\ mapping[c] = [base |-> m, len |-> MmapSize(c)]
             /\ csp[c] = TopOfStack(m, MmapSize(c))
  <2> PICK m \in MmapAt(MmapSize(c)) :
             /\ mapping[c] = [base |-> m, len |-> MmapSize(c)]
             /\ csp[c] = TopOfStack(m, MmapSize(c))
    BY <1>2
  <2>1. MmapSize(c) > 0
    BY SetupAssumption
  <2>2. /\ HasRoom(csp[c]) /\ Within(csp[c], [base |-> m, len |-> MmapSize(c)])
        /\ csp[c].perms \subseteq kCompartmentDataPerms
    BY TopOfStackValue
  <2>3. mapping[c].len # 0
    BY <2>1
  <2> QED BY <2>2, <2>3
<1> QED BY <1>1, <1>2 DEF Stack

(* The values of a compartment and of a symbol, in the terms of Prepared.  *)
LEMMA PreparedValue ==
  ASSUME IInv, NEW c \in made, NEW f \in DOMAIN lib
  PROVE  /\ Prepared(c, f) <=> /\ mapping[c].len > 0
                               /\ SealerFits(c)
                               /\ m_comp_entry[c].tag
                               /\ RestrictedEntry(lib[f]).tag
         /\ m_comp_entry[c] \in Cap /\ m_comp_entry[c].tag \in BOOLEAN
<1>1. c \in CompartmentId /\ lib \in Libraries /\ CompartmentEntryPoint \in DOMAIN lib
      /\ m_comp_entry[c] = RestrictedEntry(lib[CompartmentEntryPoint])
      /\ m_comp_entry[c] \in Cap
  BY DEF IInv, TypeOK, MadeOnce
<1>2. \A g \in DOMAIN lib : lib[g] \in Cap /\ lib[g].tag /\ Proper(lib[g])
  BY <1>1, SetupAssumption
<1>3. /\ m_comp_entry[c].tag <=> Within(lib[CompartmentEntryPoint], AT_CHERI_EXEC_RX_CAP)
      /\ RestrictedEntry(lib[f]).tag <=> Within(lib[f], AT_CHERI_EXEC_RX_CAP)
  BY <1>1, <1>2, RestrictedEntryValue
<1>4. m_comp_entry[c].tag \in BOOLEAN
  BY <1>1 DEF Cap
<1> QED BY <1>1, <1>3, <1>4 DEF Prepared

LEMMA IInvInit == Init => IInv
<1> HAVE Init
<1>1. Invalid \in Cap /\ 0 \in Address
  BY InvalidType, CapabilityAssumption DEF Address
<1>2. TypeOK
  BY <1>1 DEF Init, TypeOK, ObjectType, Invalid
<1>3. MadeOnce
  BY DEF Init, MadeOnce
<1>4. InCall
  BY DEF Init, InCall, Idle
<1> QED BY <1>2, <1>3, <1>4 DEF IInv

(* mmap, and what it leaves of the other compartments.                     *)
LEMMA CreateStackStep ==
  ASSUME TypeOK, NEW c \in CompartmentId, CreateStack(c)
  PROVE  /\ mapping' \in [CompartmentId -> [base : Address, len : Address]]
         /\ csp' \in [CompartmentId -> Cap]
         /\ \A d \in CompartmentId \ {c} : mapping'[d] = mapping[d] /\ csp'[d] = csp[d]
         /\ mapping[c].len = 0 => Stack(c)'
<1>1. CASE \E m \in MmapAt(MmapSize(c)) :
             /\ mapping' = [mapping EXCEPT ![c] = [base |-> m, len |-> MmapSize(c)]]
             /\ csp' = [csp EXCEPT ![c] = TopOfStack(m, MmapSize(c))]
  <2> PICK m \in MmapAt(MmapSize(c)) :
             /\ mapping' = [mapping EXCEPT ![c] = [base |-> m, len |-> MmapSize(c)]]
             /\ csp' = [csp EXCEPT ![c] = TopOfStack(m, MmapSize(c))]
    BY <1>1
  <2>1. TopOfStack(m, MmapSize(c)) \in Cap
    BY TopOfStackValue
  <2>2. m \in Address /\ MmapSize(c) \in Address
    <3>1. m \in Address /\ m + MmapSize(c) \in Address /\ MmapSize(c) > 0
      BY SetupAssumption
    <3>2. MmapSize(c) \in Int
      <4>1. stack_size[c] + PageSize - 1 \in Int /\ PageSize \in Nat \ {0} /\ SizeMod \in Nat \ {0}
        BY SetupAssumption
      <4>2. \A x \in Int, y \in Nat \ {0} : x % y \in Int
        OBVIOUS
      <4> DEFINE up == stack_size[c] + PageSize - 1
                 down == up - (up % PageSize)
      <4>3. down \in Int
        BY <4>1, <4>2
      <4>4. MmapSize(c) = down % SizeMod
        BY DEF MmapSize
      <4> HIDE DEF up, down
      <4> QED BY <4>1, <4>2, <4>3, <4>4
    <3> QED BY <3>1, <3>2, CapabilityAssumption DEF Address
  <2>3. mapping'[c] = [base |-> m, len |-> MmapSize(c)] /\ csp'[c] = TopOfStack(m, MmapSize(c))
    BY DEF TypeOK
  <2>4. Stack(c)'
    BY <2>3 DEF Stack
  <2> QED BY <2>1, <2>2, <2>4 DEF TypeOK
<1>2. CASE csp' = [csp EXCEPT ![c] = Invalid] /\ UNCHANGED mapping
  BY <1>2, InvalidType DEF TypeOK, Stack
<1> QED BY <1>1, <1>2 DEF CreateStack

LEMMA CCompartmentStep ==
  ASSUME IInv, NEW c \in CompartmentId, CCompartment(c)
  PROVE  IInv'
<1> USE DEF IInv
<1>1. pc = "main" /\ c \notin made /\ CreateStack(c) /\ made' = made \cup {c} /\ lib' = lib
      /\ pc' = pc /\ CompartmentEntryPoint \in DOMAIN lib
      /\ m_sealer_cap' = [m_sealer_cap EXCEPT ![c] = SealerCap(seal_id[c])]
      /\ m_comp_entry' = [m_comp_entry EXCEPT ![c] = RestrictedEntry(lib[CompartmentEntryPoint])]
  BY DEF CCompartment, Found
<1>2. /\ mapping' \in [CompartmentId -> [base : Address, len : Address]]
      /\ csp' \in [CompartmentId -> Cap]
      /\ \A d \in CompartmentId \ {c} : mapping'[d] = mapping[d] /\ csp'[d] = csp[d]
      /\ mapping[c].len = 0 => Stack(c)'
  BY <1>1, CreateStackStep
<1>3. mapping[c].len = 0
  BY <1>1 DEF MadeOnce
<1>4. SealerCap(seal_id[c]) \in Cap
  BY SealerCapValue
<1>5. RestrictedEntry(lib[CompartmentEntryPoint]) \in Cap
  <2>1. lib \in Libraries
    BY DEF TypeOK
  <2> QED BY <2>1, <1>1, SetupAssumption, RestrictedEntryValue
<1>6. TypeOK'
  BY <1>1, <1>2, <1>4, <1>5 DEF TypeOK, CCompartment, registers
<1>7. MadeOnce'
  <2>1. ASSUME NEW d \in made'
        PROVE  /\ m_sealer_cap'[d] = SealerCap(seal_id[d])
               /\ m_comp_entry'[d] = RestrictedEntry(lib[CompartmentEntryPoint])
               /\ Stack(d)'
    <3>1. CASE d = c
      BY <3>1, <1>1, <1>2, <1>3 DEF TypeOK
    <3>2. CASE d # c
      <4>1. d \in made /\ d \in CompartmentId
        BY <3>2, <1>1 DEF TypeOK
      <4>2. mapping'[d] = mapping[d] /\ csp'[d] = csp[d]
        BY <3>2, <4>1, <1>2
      <4>3. Stack(d) => Stack(d)'
        BY <4>2 DEF Stack
      <4> QED BY <3>2, <4>1, <4>3, <1>1 DEF MadeOnce, TypeOK
    <3> QED BY <3>1, <3>2
  <2>2. \A d \in CompartmentId \ made' : mapping'[d].len = 0
    BY <1>1, <1>2 DEF MadeOnce
  <2> QED BY <1>1, <2>1, <2>2 DEF MadeOnce
<1>8. InCall'
  BY <1>1 DEF InCall, Idle, CCompartment
<1> QED BY <1>6, <1>7, <1>8

LEMMA EntryPointNotFoundStep ==
  ASSUME IInv, NEW c \in CompartmentId, EntryPointNotFound(c)
  PROVE  IInv'
<1> USE DEF IInv
<1>1. pc = "main" /\ c \notin made /\ CreateStack(c) /\ made' = made /\ lib' = lib
      /\ pc' = "terminated" /\ m_comp_entry' = m_comp_entry
      /\ m_sealer_cap' = [m_sealer_cap EXCEPT ![c] = SealerCap(seal_id[c])]
  BY DEF EntryPointNotFound
<1>2. /\ mapping' \in [CompartmentId -> [base : Address, len : Address]]
      /\ csp' \in [CompartmentId -> Cap]
      /\ \A d \in CompartmentId \ {c} : mapping'[d] = mapping[d] /\ csp'[d] = csp[d]
  BY <1>1, CreateStackStep
<1>3. TypeOK'
  BY <1>1, <1>2, SealerCapValue DEF TypeOK, EntryPointNotFound, registers
<1>4. ASSUME NEW d \in made
      PROVE  m_sealer_cap'[d] = m_sealer_cap[d] /\ (Stack(d) => Stack(d)')
  <2>1. d # c /\ d \in CompartmentId
    BY <1>1 DEF TypeOK
  <2> QED BY <2>1, <1>1, <1>2 DEF Stack, TypeOK
<1>5. MadeOnce'
  BY <1>1, <1>4 DEF MadeOnce
<1>6. InCall'
  BY <1>1 DEF InCall, Idle, EntryPointNotFound
<1> QED BY <1>3, <1>5, <1>6

(* The steps that leave what was made as it is.                            *)
LEMMA MadeOnceUnchanged ==
  ASSUME MadeOnce, UNCHANGED <<lib, objects>>, pc # "terminated"
  PROVE  MadeOnce'
<1>1. \A c : Stack(c) => Stack(c)'
  BY DEF Stack, objects
<1> QED BY <1>1 DEF MadeOnce, objects

LEMMA CallCompartmentFunctionStep ==
  ASSUME IInv, NEW c \in CompartmentId, NEW f \in Function, CallCompartmentFunction(c, f)
  PROVE  IInv'
<1> USE DEF IInv
<1>1. pc = "main" /\ c \in made /\ f \in DOMAIN lib /\ this' = c /\ fn' = f
      /\ fp' = RestrictedEntry(lib[f]) /\ c1' = m_comp_entry[c] /\ c3' = m_sealer_cap[c]
      /\ c2' = Seal(ObjectOf(c, "call"), m_sealer_cap[c])
      /\ pc' = "CompartmentSwitchEntry" /\ UNCHANGED <<lib, objects, c0>>
  BY DEF CallCompartmentFunction, Found
<1>2. m_sealer_cap[c] = SealerCap(seal_id[c])
  BY <1>1 DEF MadeOnce
<1>3. c2' \in ObjectType
  BY <1>1, <1>2, SealUnseal
<1>4. fp' \in Cap
  <2>1. lib \in Libraries
    BY DEF TypeOK
  <2> QED BY <2>1, <1>1, SetupAssumption, RestrictedEntryValue
<1>5. TypeOK'
  BY <1>1, <1>3, <1>4 DEF TypeOK, objects
<1>6. MadeOnce'
  BY <1>1, MadeOnceUnchanged
<1>7. InCall'
  BY <1>1, <1>2 DEF InCall, Idle, Sealed, objects
<1> QED BY <1>5, <1>6, <1>7

LEMMA CompartmentSwitchEntryStep ==
  ASSUME IInv, CompartmentSwitchEntry
  PROVE  IInv'
<1> USE DEF IInv
<1>1. /\ pc = "CompartmentSwitchEntry" /\ c0' = Unseal(c2, c3)
      /\ pc' = IF c1.tag THEN (IF c2.kind = "call" THEN "CompartmentUnwrap"
                                                   ELSE "CompartmentServiceHandler")
                         ELSE "fault"
      /\ UNCHANGED <<lib, this, fn, objects, fp, c1, c2, c3>>
  BY DEF CompartmentSwitchEntry
<1>2. /\ this \in made /\ fn \in Function /\ fn \in DOMAIN lib
      /\ fp = RestrictedEntry(lib[fn])
      /\ c3 = SealerCap(seal_id[this])
      /\ \/ Sealed("call") /\ c1 = m_comp_entry[this]
         \/ Sealed("service") /\ Prepared(this, fn) /\ c1.tag
  BY <1>1 DEF InCall, Idle
<1>3. this \in CompartmentId
  BY <1>2 DEF TypeOK
<1>4. c0' \in ObjectType
  BY <1>1, <1>2, <1>3, SealUnseal DEF Sealed
<1>5. TypeOK'
  BY <1>1, <1>4 DEF TypeOK, objects
<1>6. MadeOnce'
  BY <1>1, MadeOnceUnchanged
<1>7. Prepared(this, fn) <=> Prepared(this, fn)'
  BY <1>1 DEF Prepared, objects
<1>8. InCall'
  <2>0. /\ Prepared(this, fn) => m_comp_entry[this].tag
        /\ m_comp_entry[this].tag \in BOOLEAN
    BY <1>2, PreparedValue
  <2>1. CASE Sealed("call") /\ c1 = m_comp_entry[this]
    <3>1. c2.kind = "call"
      BY <2>1, <1>3, SealUnseal DEF Sealed
    <3>2. CASE c1.tag
      BY <3>1, <3>2, <2>1, <1>1, <1>2 DEF InCall, Idle, Sealed, Unsealed, objects
    <3>3. CASE ~c1.tag
      BY <3>3, <2>0, <2>1, <1>1, <1>2, <1>7 DEF InCall, Idle, objects
    <3> QED BY <3>2, <3>3
  <2>2. CASE Sealed("service") /\ Prepared(this, fn) /\ c1.tag
    <3>1. c2.kind = "service"
      BY <2>2, <1>3, SealUnseal DEF Sealed
    <3> QED BY <3>1, <2>2, <1>1, <1>2, <1>7 DEF InCall, Idle, Sealed, Unsealed, objects
  <2> QED BY <2>1, <2>2, <1>2
<1> QED BY <1>5, <1>6, <1>8

LEMMA CompartmentUnwrapStep ==
  ASSUME IInv, CompartmentUnwrap
  PROVE  IInv'
<1> USE DEF IInv
<1>1. /\ pc = "CompartmentUnwrap"
      /\ pc' = IF HasRoom(csp[this]) /\ c0.tag /\ fp.tag THEN "Function" ELSE "fault"
      /\ UNCHANGED <<lib, this, fn, objects, fp, registers>>
  BY DEF CompartmentUnwrap
<1>2. /\ this \in made /\ fn \in Function /\ fn \in DOMAIN lib
      /\ fp = RestrictedEntry(lib[fn])
      /\ c3 = SealerCap(seal_id[this])
      /\ Sealed("call") /\ Unsealed /\ m_comp_entry[this].tag
  BY <1>1 DEF InCall, Idle
<1>3. this \in CompartmentId /\ Stack(this)
  BY <1>2 DEF TypeOK, MadeOnce
<1>4. TypeOK'
  BY <1>1 DEF TypeOK, objects, registers
<1>5. MadeOnce'
  BY <1>1, MadeOnceUnchanged
<1>6. Prepared(this, fn) <=> Prepared(this, fn)'
  BY <1>1 DEF Prepared, objects
<1>7. Prepared(this, fn) <=> mapping[this].len > 0 /\ SealerFits(this) /\ fp.tag
  BY <1>2, PreparedValue
<1>8. /\ SealerFits(this) => c0 = ObjectOf(this, "call")
      /\ ~SealerFits(this) => ~c0.tag
  BY <1>2, <1>3, SealUnseal DEF Sealed, Unsealed
<1>9. HasRoom(csp[this]) <=> mapping[this].len > 0
  <2>1. mapping[this].len > 0 \/ mapping[this].len = 0
    BY <1>3 DEF TypeOK, Address
  <2> QED BY <2>1, <1>3, StackValue DEF HasRoom
<1>10. c0.tag <=> SealerFits(this)
  BY <1>8 DEF ObjectOf
<1>11. Prepared(this, fn) <=> HasRoom(csp[this]) /\ c0.tag /\ fp.tag
  BY <1>7, <1>9, <1>10
<1>12. InCall'
  <2>1. CASE HasRoom(csp[this]) /\ c0.tag /\ fp.tag
    <3>1. c0.otype = 0 /\ c0.of = this
      BY <2>1, <1>8, <1>10 DEF ObjectOf
    <3> QED BY <3>1, <2>1, <1>1, <1>2, <1>6, <1>11 DEF InCall, Idle, objects, registers
  <2>2. CASE ~(HasRoom(csp[this]) /\ c0.tag /\ fp.tag)
    BY <2>2, <1>1, <1>2, <1>6, <1>11 DEF InCall, Idle, objects, registers
  <2> QED BY <2>1, <2>2
<1> QED BY <1>4, <1>5, <1>12

LEMMA CompartmentServiceCallbackStep ==
  ASSUME IInv, CompartmentServiceCallback
  PROVE  IInv'
<1> USE DEF IInv
<1>1. /\ pc = "Function" /\ pc' = "CompartmentSwitchEntry"
      /\ c1' = [AT_CHERI_EXEC_RX_CAP EXCEPT !.sentry = TRUE]
      /\ c2' = Seal(ObjectOf(this, "service"), m_sealer_cap[this])
      /\ c3' = m_sealer_cap[this]
      /\ UNCHANGED <<lib, this, fn, objects, fp, c0>>
  BY DEF CompartmentServiceCallback
<1>2. /\ this \in made /\ fn \in Function /\ fn \in DOMAIN lib
      /\ fp = RestrictedEntry(lib[fn]) /\ Prepared(this, fn)
  BY <1>1 DEF InCall, Idle
<1>3. this \in CompartmentId /\ m_sealer_cap[this] = SealerCap(seal_id[this])
  BY <1>2 DEF TypeOK, MadeOnce
<1>4. c1' \in Cap /\ c1'.tag
  BY <1>1, SetupAssumption DEF Cap
<1>5. c2' \in ObjectType
  BY <1>1, <1>3, SealUnseal
<1>6. TypeOK'
  BY <1>1, <1>2, <1>4, <1>5 DEF TypeOK, objects
<1>7. MadeOnce'
  BY <1>1, MadeOnceUnchanged
<1>8. Prepared(this, fn)'
  BY <1>1, <1>2 DEF Prepared, objects
<1>9. InCall'
  BY <1>1, <1>2, <1>3, <1>4, <1>8 DEF InCall, Idle, Sealed, objects
<1> QED BY <1>6, <1>7, <1>9

LEMMA CompartmentServiceHandlerStep ==
  ASSUME IInv, CompartmentServiceHandler
  PROVE  IInv'
<1> USE DEF IInv
<1>1. /\ pc = "CompartmentServiceHandler" /\ UNCHANGED <<lib, this, fn, objects, fp, c0>>
      /\ \/ pc' = "Function" /\ c1' = Invalid /\ c2' = NoObject /\ c3' = Invalid
         \/ ~c0.tag
  BY DEF CompartmentServiceHandler
<1>2. /\ this \in made /\ fn \in Function /\ fn \in DOMAIN lib
      /\ fp = RestrictedEntry(lib[fn])
      /\ c3 = SealerCap(seal_id[this])
      /\ Sealed("service") /\ Unsealed /\ Prepared(this, fn)
  BY <1>1 DEF InCall, Idle
<1>3. this \in CompartmentId /\ SealerFits(this)
  BY <1>2 DEF TypeOK, Prepared
<1>4. c0 = ObjectOf(this, "service")
  BY <1>2, <1>3, SealUnseal DEF Sealed, Unsealed
<1>5. c0.tag /\ c0.otype = 0 /\ c0.of = this
  BY <1>4 DEF ObjectOf
<1>6. TypeOK'
  <2>1. pc' = "Function" /\ c1' \in Cap /\ c2' \in ObjectType /\ c3' \in Cap
    BY <1>1, <1>5, InvalidType DEF ObjectType
  <2> QED BY <2>1, <1>1, <1>2 DEF TypeOK, objects
<1>7. MadeOnce'
  BY <1>1, MadeOnceUnchanged
<1>8. Prepared(this, fn)'
  BY <1>1, <1>2 DEF Prepared, objects
<1>9. InCall'
  BY <1>1, <1>2, <1>5, <1>8 DEF InCall, Idle, objects
<1> QED BY <1>6, <1>7, <1>9

LEMMA CompartmentSwitchReturnStep ==
  ASSUME IInv, CompartmentSwitchReturn
  PROVE  IInv'
<1> USE DEF IInv
<1>1. TypeOK'
  BY InvalidType DEF CompartmentSwitchReturn, TypeOK, ObjectType, Invalid, objects
<1>2. MadeOnce'
  BY MadeOnceUnchanged DEF CompartmentSwitchReturn
<1>3. InCall'
  BY DEF CompartmentSwitchReturn, InCall, Idle
<1> QED BY <1>1, <1>2, <1>3

(* main leaves, or is ended.                                               *)
LEMMA LeavingStep ==
  ASSUME IInv, pc = "main", pc' \in {"exit", "terminated"},
         UNCHANGED <<lib, this, fn, objects, fp, registers>>
  PROVE  IInv'
<1> USE DEF IInv
<1>1. TypeOK'
  BY DEF TypeOK, objects, registers
<1>2. MadeOnce'
  BY MadeOnceUnchanged
<1>3. InCall'
  BY DEF InCall, Idle
<1> QED BY <1>1, <1>2, <1>3

LEMMA StutterStep ==
  ASSUME IInv, UNCHANGED vars
  PROVE  IInv'
<1> USE DEF IInv, vars, objects, registers
<1>1. TypeOK'
  BY DEF TypeOK
<1>2. MadeOnce'
  <2>1. \A c : Stack(c) => Stack(c)'
    BY DEF Stack
  <2> QED BY <2>1 DEF MadeOnce
<1>3. Prepared(this, fn) <=> Prepared(this, fn)'
  BY DEF Prepared
<1>4. InCall'
  BY <1>3 DEF InCall, Sealed, Unsealed
<1> QED BY <1>1, <1>2, <1>4

LEMMA IInvNext == IInv /\ [Next]_vars => IInv'
<1> SUFFICES ASSUME IInv, [Next]_vars PROVE IInv'
  OBVIOUS
<1>1. ASSUME NEW c \in CompartmentId, CCompartment(c) PROVE IInv'
  BY <1>1, CCompartmentStep
<1>2. ASSUME NEW c \in CompartmentId, EntryPointNotFound(c) PROVE IInv'
  BY <1>2, EntryPointNotFoundStep
<1>3. ASSUME NEW c \in CompartmentId, NEW f \in Function, CallCompartmentFunction(c, f) PROVE IInv'
  BY <1>3, CallCompartmentFunctionStep
<1>4. ASSUME NEW c \in CompartmentId, NEW f \in Function, FunctionNotFound(c, f) PROVE IInv'
  BY <1>4, LeavingStep DEF FunctionNotFound
<1>5. CASE CompartmentSwitchEntry
  BY <1>5, CompartmentSwitchEntryStep
<1>6. CASE CompartmentUnwrap
  BY <1>6, CompartmentUnwrapStep
<1>7. CASE CompartmentServiceCallback
  BY <1>7, CompartmentServiceCallbackStep
<1>8. CASE CompartmentServiceHandler
  BY <1>8, CompartmentServiceHandlerStep
<1>9. CASE CompartmentSwitchReturn
  BY <1>9, CompartmentSwitchReturnStep
<1>10. CASE MainExit
  BY <1>10, LeavingStep DEF MainExit
<1>11. CASE UNCHANGED vars
  BY <1>11, StutterStep
<1> QED BY <1>1, <1>2, <1>3, <1>4, <1>5, <1>6, <1>7, <1>8, <1>9, <1>10, <1>11
        DEF Next, Ended

LEMMA IInvAlways == Spec => []IInv
BY IInvInit, IInvNext, PTL DEF Spec
------------------------------------------------------------------------------
(* The theorems. *)

(* Types, and nothing of a call is left in main (the switcher's clearing). *)
THEOREM SetupTypeOK == Spec => []TypeOK
<1>1. IInv => TypeOK
  BY DEF IInv
<1> QED BY <1>1, IInvAlways, PTL

(* A call in a compartment whose set-up had what it needs does not fault.  *)
THEOREM SetupFaultOnlyIfUnprepared == Spec => []FaultOnlyIfUnprepared
<1>1. IInv => FaultOnlyIfUnprepared
  BY DEF IInv, InCall, Idle, FaultOnlyIfUnprepared
<1> QED BY <1>1, IInvAlways, PTL

(* No API function runs in a compartment whose set-up failed, although the *)
(* constructor does not look at what it derived.                           *)
THEOREM SetupRunsOnlyPrepared == Spec => []RunsOnlyPrepared
<1>1. IInv => RunsOnlyPrepared
  <2> SUFFICES ASSUME IInv, pc \in {"Function", "CompartmentServiceHandler"}
               PROVE  Prepared(this, fn) /\ c0.tag /\ c0.otype = 0 /\ c0.of = this
    BY DEF RunsOnlyPrepared
  <2>1. CASE pc = "Function"
    BY <2>1 DEF IInv, InCall, Idle
  <2>2. CASE pc = "CompartmentServiceHandler"
    <3>1. this \in made /\ Sealed("service") /\ Unsealed /\ Prepared(this, fn)
      BY <2>2 DEF IInv, InCall, Idle
    <3>2. this \in CompartmentId /\ SealerFits(this)
      BY <3>1 DEF IInv, TypeOK, Prepared
    <3>3. c0 = ObjectOf(this, "service")
      BY <3>1, <3>2, SealUnseal DEF Sealed, Unsealed
    <3> QED BY <3>1, <3>3 DEF ObjectOf
  <2> QED BY <2>1, <2>2
<1> QED BY <1>1, IInvAlways, PTL

(* What a compartment is given grants no more than it needs.               *)
THEOREM SetupPrivileges == Spec => []Privileges
<1>1. IInv => Privileges
  <2> SUFFICES ASSUME IInv PROVE Privileges
    OBVIOUS
  <2> USE DEF IInv
  <2>0. lib \in Libraries /\ \A f \in DOMAIN lib : lib[f] \in Cap /\ lib[f].tag /\ Proper(lib[f])
    BY SetupAssumption DEF TypeOK
  <2>1. ASSUME NEW f \in DOMAIN lib PROVE RestrictedTo(RestrictedEntry(lib[f]), f)
    BY <2>0, RestrictedEntryValue DEF RestrictedTo, Executive, kCompartmentExecPerms
  <2>2. ASSUME NEW c \in made
        PROVE  /\ RestrictedTo(m_comp_entry[c], CompartmentEntryPoint)
               /\ csp[c].tag => /\ Within(csp[c], mapping[c])
                                /\ ~Executive(csp[c]) /\ "execute" \notin csp[c].perms
               /\ SealsWithin(m_sealer_cap[c], c)
    <3>1. c \in CompartmentId /\ CompartmentEntryPoint \in DOMAIN lib /\ Stack(c)
          /\ m_sealer_cap[c] = SealerCap(seal_id[c])
          /\ m_comp_entry[c] = RestrictedEntry(lib[CompartmentEntryPoint])
      BY DEF TypeOK, MadeOnce
    <3>2. csp[c].tag => Within(csp[c], mapping[c]) /\ csp[c].perms \subseteq kCompartmentDataPerms
      BY <3>1, StackValue
    <3>3. SealsWithin(m_sealer_cap[c], c)
      BY <3>1, SealerCapValue DEF SealsWithin, Authorises, kCompartmentSealerPerms
    <3> QED BY <3>1, <3>2, <3>3, <2>1 DEF Executive, kCompartmentDataPerms
  <2>3. fn # None => RestrictedTo(fp, fn)
    BY <2>1 DEF InCall
  <2> QED BY <2>2, <2>3 DEF Privileges
<1> QED BY <1>1, IInvAlways, PTL
=============================================================================
