-------------------------- MODULE CapabilityProofs --------------------------
(* What Capability::DeriveFromCap guarantees, of all capabilities.          *)
EXTENDS Capability, TLAPS

(* Capabilities are the same if their fields are.                          *)
LEMMA CapEquality ==
  ASSUME NEW c \in Cap, NEW d \in Cap,
         c.tag <=> d.tag, c.base = d.base, c.len = d.len, c.addr = d.addr,
         c.perms = d.perms, c.sentry <=> d.sentry
  PROVE  c = d
<1>1. c.tag = d.tag /\ c.sentry = d.sentry
  BY DEF Cap
<1>2. c = [tag |-> c.tag, base |-> c.base, len |-> c.len, addr |-> c.addr,
           perms |-> c.perms, sentry |-> c.sentry]
  BY DEF Cap
<1>3. d = [tag |-> d.tag, base |-> d.base, len |-> d.len, addr |-> d.addr,
           perms |-> d.perms, sentry |-> d.sentry]
  BY DEF Cap
<1> QED BY <1>1, <1>2, <1>3

(* The result of deriving is a capability.                                 *)
LEMMA DeriveType ==
  ASSUME NEW m \in Cap, NEW p \in Cap,
         NEW S \in SUBSET Perm, NEW D \in SUBSET Perm
  PROVE  DeriveFromCap(m, p, S, D) \in Cap
<1> USE CapabilityAssumption DEF Address
<1> DEFINE moved == IF Within(p, m) THEN SetBoundsAndAddress(m, p) ELSE AddressSet(m, p.addr)
           c == PermsAnd(moved, (p.perms \cup S) \ D)
<1>1. Representable(m.base, m.len, p.addr) \in BOOLEAN
  BY DEF Cap
<1>2. AddressSet(m, p.addr) \in Cap
  BY <1>1 DEF Cap, AddressSet
<1>5. SetBoundsAndAddress(m, p) \in Cap
  <2> DEFINE a == AddressSet(m, p.base)
             b == BoundsSet(a, p.len)
  <2>1. Representable(m.base, m.len, p.base) \in BOOLEAN
    BY DEF Cap
  <2>2. a \in Cap /\ a.addr = p.base
    BY <2>1 DEF Cap, AddressSet
  <2> HIDE DEF a
  <2>3. b \in Cap /\ b.base = p.base
    BY <2>2 DEF Cap, BoundsSet
  <2> HIDE DEF b
  <2>4. b.base + (p.addr - p.base) = p.addr
    BY <2>3 DEF Cap
  <2>5. Representable(b.base, b.len, p.addr) \in BOOLEAN
    BY <2>3 DEF Cap
  <2>6. AddressSet(b, p.addr) \in Cap
    BY <2>3, <2>5 DEF Cap, AddressSet
  <2> QED BY <2>4, <2>6 DEF SetBoundsAndAddress, OffsetSet, a, b
<1>6. moved \in Cap
  BY <1>2, <1>5
<1>7. c \in Cap
  BY <1>6 DEF Cap, PermsAnd
<1> HIDE DEF moved, c
<1>8. SentryCreate(c) \in Cap
  BY <1>7 DEF Cap, SentryCreate
<1>9. DeriveFromCap(m, p, S, D) \in {c, SentryCreate(c)}
  BY DEF DeriveFromCap, moved, c
<1> QED BY <1>7, <1>8, <1>9

(* Whatever p is, the result has none of the permissions to clear, and no  *)
(* permission that p, or the ones to set, and m do not have.               *)
LEMMA DerivePerms ==
  ASSUME NEW m \in Cap, NEW p \in Cap,
         NEW S \in SUBSET Perm, NEW D \in SUBSET Perm
  PROVE  DeriveFromCap(m, p, S, D).perms = m.perms \cap ((p.perms \cup S) \ D)
<1>1. AddressSet(m, p.addr).perms = m.perms
  BY DEF AddressSet, Cap
<1>2. SetBoundsAndAddress(m, p).perms = m.perms
  BY DEF SetBoundsAndAddress, OffsetSet, BoundsSet, AddressSet, Cap
<1> QED BY <1>1, <1>2 DEF DeriveFromCap, PermsAnd, SentryCreate

(* Of a proper capability p within m, the result is p itself but for the   *)
(* permissions.                                                            *)
LEMMA DeriveWithin ==
  \A m, p \in Cap : \A S, D \in SUBSET Perm :
    m.tag /\ ~m.sentry /\ p.tag /\ Proper(p) /\ Within(p, m) =>
      DeriveFromCap(m, p, S, D)
        = [p EXCEPT !.perms = m.perms \cap ((p.perms \cup S) \ D)]
<1> TAKE m, p \in Cap
<1> TAKE S, D \in SUBSET Perm
<1> HAVE m.tag /\ ~m.sentry /\ p.tag /\ Proper(p) /\ Within(p, m)
<1> DEFINE a == AddressSet(m, p.base)
           b == BoundsSet(a, p.len)
           moved == AddressSet(b, p.addr)
           perms == m.perms \cap ((p.perms \cup S) \ D)
           c == PermsAnd(moved, (p.perms \cup S) \ D)
<1>1. Representable(m.base, m.len, p.base)
  BY CapabilityAssumption DEF Cap, Within, Address
<1>2. /\ a \in Cap /\ a.tag /\ ~a.sentry /\ a.addr = p.base
      /\ a.base = m.base /\ a.len = m.len /\ a.perms = m.perms
  BY <1>1 DEF AddressSet, Cap
<1>3. a.base <= a.addr /\ a.addr + p.len <= a.base + a.len
  BY <1>2 DEF Cap, Within, Address
<1> HIDE DEF a
<1>4. /\ b \in Cap /\ b.tag /\ ~b.sentry /\ b.addr = p.base
      /\ b.base = p.base /\ b.len = p.len /\ b.perms = m.perms
  BY <1>2, <1>3 DEF BoundsSet, Cap
<1> HIDE DEF b
<1>5. /\ moved \in Cap /\ moved.tag /\ ~moved.sentry /\ moved.addr = p.addr
      /\ moved.base = p.base /\ moved.len = p.len /\ moved.perms = m.perms
  BY <1>4 DEF AddressSet, Cap, Proper
<1>6. moved = SetBoundsAndAddress(m, p)
  <2>1. b.base + (p.addr - p.base) = p.addr
    BY <1>4 DEF Cap, Address
  <2> QED BY <2>1 DEF SetBoundsAndAddress, OffsetSet, a, b
<1> HIDE DEF moved
<1>7. /\ c \in Cap /\ c.tag /\ ~c.sentry /\ c.addr = p.addr
      /\ c.base = p.base /\ c.len = p.len /\ c.perms = perms
  BY <1>5 DEF PermsAnd, Cap
<1>8. DeriveFromCap(m, p, S, D) = IF p.sentry THEN SentryCreate(c) ELSE c
  BY <1>6 DEF DeriveFromCap
<1> HIDE DEF c
<1>9. /\ DeriveFromCap(m, p, S, D) \in Cap /\ DeriveFromCap(m, p, S, D).tag
      /\ DeriveFromCap(m, p, S, D).addr = p.addr /\ DeriveFromCap(m, p, S, D).base = p.base
      /\ DeriveFromCap(m, p, S, D).len = p.len /\ DeriveFromCap(m, p, S, D).perms = perms
      /\ (DeriveFromCap(m, p, S, D).sentry <=> p.sentry)
  BY <1>7, <1>8 DEF SentryCreate, Cap
<1> HIDE DEF perms
<1> DEFINE q == [p EXCEPT !.perms = perms]
<1>10. perms \in SUBSET Perm
  BY DEF perms, Cap
<1>11. /\ q \in Cap /\ q.tag /\ q.addr = p.addr /\ q.base = p.base
       /\ q.len = p.len /\ q.perms = perms /\ (q.sentry <=> p.sentry)
  BY <1>10 DEF Cap
<1> HIDE DEF q
<1>12. DeriveFromCap(m, p, S, D) = q
  BY <1>9, <1>11, CapEquality
<1> QED BY <1>12 DEF q, perms

(* Whatever p is, the result has its address, within the bounds of m.      *)
LEMMA DerivePlace ==
  ASSUME NEW m \in Cap, NEW p \in Cap,
         NEW S \in SUBSET Perm, NEW D \in SUBSET Perm
  PROVE  /\ DeriveFromCap(m, p, S, D).addr = p.addr
         /\ Within(DeriveFromCap(m, p, S, D), m)
<1> DEFINE moved == IF Within(p, m) THEN SetBoundsAndAddress(m, p) ELSE AddressSet(m, p.addr)
           c == PermsAnd(moved, (p.perms \cup S) \ D)
<1>1. moved.addr = p.addr /\ Within(moved, m)
  <2>1. CASE Within(p, m)
    <3>1. /\ SetBoundsAndAddress(m, p).base = p.base
          /\ SetBoundsAndAddress(m, p).len = p.len
          /\ SetBoundsAndAddress(m, p).addr = p.base + (p.addr - p.base)
      BY DEF SetBoundsAndAddress, OffsetSet, BoundsSet, AddressSet, Cap
    <3>2. p.base + (p.addr - p.base) = p.addr
      BY CapabilityAssumption DEF Cap, Address
    <3> QED BY <2>1, <3>1, <3>2 DEF Within
  <2>2. CASE ~Within(p, m)
    <3>1. /\ AddressSet(m, p.addr).base = m.base /\ AddressSet(m, p.addr).len = m.len
          /\ AddressSet(m, p.addr).addr = p.addr
      BY DEF AddressSet, Cap
    <3>2. m.base \in Int /\ m.len \in Int
      BY CapabilityAssumption DEF Cap, Address
    <3> QED BY <2>2, <3>1, <3>2 DEF Within
  <2> QED BY <2>1, <2>2
<1>2. DOMAIN moved = {"tag", "base", "len", "addr", "perms", "sentry"}
  BY DEF SetBoundsAndAddress, OffsetSet, BoundsSet, AddressSet, Cap
<1> HIDE DEF moved
<1>3. c.addr = p.addr /\ c.base = moved.base /\ c.len = moved.len
  BY <1>1, <1>2 DEF PermsAnd
<1>4. /\ SentryCreate(c).addr = p.addr /\ SentryCreate(c).base = moved.base
      /\ SentryCreate(c).len = moved.len
  BY <1>1, <1>2, <1>3 DEF SentryCreate, PermsAnd
<1>5. DeriveFromCap(m, p, S, D) \in {c, SentryCreate(c)}
  BY DEF DeriveFromCap, moved
<1> HIDE DEF c
<1> QED BY <1>1, <1>3, <1>4, <1>5 DEF Within

(* What is derived is proper.                                              *)
LEMMA DeriveProper ==
  ASSUME NEW m \in Cap, NEW p \in Cap,
         NEW S \in SUBSET Perm, NEW D \in SUBSET Perm
  PROVE  Proper(DeriveFromCap(m, p, S, D))
<1> DEFINE moved == IF Within(p, m) THEN SetBoundsAndAddress(m, p) ELSE AddressSet(m, p.addr)
           c == PermsAnd(moved, (p.perms \cup S) \ D)
<1>1. ASSUME NEW d \in Cap, NEW a \in Address
      PROVE  Proper(AddressSet(d, a)) /\ AddressSet(d, a) \in Cap
  <2>1. Representable(d.base, d.len, a) \in BOOLEAN
    BY CapabilityAssumption DEF Cap
  <2> QED BY <2>1 DEF Proper, AddressSet, Cap
<1>2. Proper(moved) /\ moved \in Cap
  <2>1. CASE ~Within(p, m)
    BY <1>1, <2>1 DEF Cap
  <2>2. CASE Within(p, m)
    <3> DEFINE b == BoundsSet(AddressSet(m, p.base), p.len)
               o == b.base + (p.addr - p.base)
    <3>1. AddressSet(m, p.base) \in Cap /\ AddressSet(m, p.base).addr = p.base
      BY <1>1 DEF Cap, AddressSet
    <3>2. b \in Cap /\ b.base = p.base
      BY <3>1 DEF BoundsSet, Cap, Address
    <3>3. o = p.addr /\ o \in Address
      BY <3>2, CapabilityAssumption DEF Cap, Address
    <3>4. moved = AddressSet(b, o)
      BY <2>2 DEF SetBoundsAndAddress, OffsetSet
    <3> HIDE DEF b, o, moved
    <3> QED BY <1>1, <3>2, <3>3, <3>4
  <2> QED BY <2>1, <2>2
<1> HIDE DEF moved
<1>3. Proper(c) /\ c \in Cap
  BY <1>2 DEF PermsAnd, Proper, Cap
<1>4. DeriveFromCap(m, p, S, D) = IF p.sentry THEN SentryCreate(c) ELSE c
  BY DEF DeriveFromCap, moved
<1> HIDE DEF c
<1> QED BY <1>3, <1>4 DEF SentryCreate, Proper, Cap
=============================================================================
