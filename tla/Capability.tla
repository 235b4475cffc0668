----------------------------- MODULE Capability -----------------------------
(***************************************************************************)
(* CHERI capabilities and the class Capability that the capability manager *)
(* wraps them in (utils/CCapability.h).  A capability is its tag, bounds,  *)
(* address, permissions and whether it is a sealed entry.  The hardware    *)
(* operations (the cheri_* intrinsics) never enlarge what a capability     *)
(* grants: where the result would, they clear the tag.                     *)
(***************************************************************************)
EXTENDS Integers

CONSTANTS
  Perm,                  \* permissions, "executive" (ARM_CAP_PERMISSION_EXECUTIVE) among them
  MaxAddr,               \* the last address
  Representable(_, _, _) \* (base, len, a): such bounds can go with address a

Address == 0 .. MaxAddr

(* The compressed bounds always go with an address inside them.            *)
ASSUME CapabilityAssumption ==
  /\ "executive" \in Perm
  /\ MaxAddr \in Nat
  /\ \A base, len, a \in Address :
       /\ Representable(base, len, a) \in BOOLEAN
       /\ base <= a /\ a <= base + len => Representable(base, len, a)

Cap == [tag : BOOLEAN, base : Address, len : Address, addr : Address,
        perms : SUBSET Perm, sentry : BOOLEAN]

(* What every tagged capability satisfies.                                 *)
Proper(c) == c.tag => Representable(c.base, c.len, c.addr)

Within(p, c)  == p.base >= c.base /\ p.len + p.base <= c.len + c.base
Executive(c)  == c.tag /\ "executive" \in c.perms

(* The intrinsics. *)
AddressSet(c, a) ==
  [c EXCEPT !.addr = a,
            !.tag = @ /\ ~c.sentry /\ Representable(c.base, c.len, a)]
(* The lengths used here are those of existing capabilities, so exact.     *)
BoundsSet(c, len) ==
  [c EXCEPT !.base = c.addr, !.len = len,
            !.tag = @ /\ ~c.sentry /\ c.base <= c.addr /\ c.addr + len <= c.base + c.len]
OffsetSet(c, offset) == AddressSet(c, c.base + offset)
PermsAnd(c, perms) == [c EXCEPT !.perms = @ \cap perms, !.tag = @ /\ ~c.sentry]
SentryCreate(c) == [c EXCEPT !.sentry = TRUE]

(* The methods. *)
SetBoundsAndAddress(m, p) ==
  OffsetSet(BoundsSet(AddressSet(m, p.base), p.len), p.addr - p.base)

(* Mutant: what was a sealed entry is not made one again.                  *)
DeriveFromCapUnsealed(m, p, setPerms, clearPerms) ==
  PermsAnd(IF Within(p, m) THEN SetBoundsAndAddress(m, p) ELSE AddressSet(m, p.addr),
           (p.perms \cup setPerms) \ clearPerms)

(* A capability like p, derived from m: the bounds, permissions and        *)
(* address of p, with some permissions added (as far as m has them) and    *)
(* some removed.  p outside the bounds of m only gives its address.        *)
DeriveFromCap(m, p, setPerms, clearPerms) ==
  LET moved == IF Within(p, m) THEN SetBoundsAndAddress(m, p) ELSE AddressSet(m, p.addr)
      c == PermsAnd(moved, (p.perms \cup setPerms) \ clearPerms)
  IN  IF p.sentry THEN SentryCreate(c) ELSE c
=============================================================================
