------------------------------- MODULE Buckets -------------------------------
(***************************************************************************)
(* The three-bucket credit arithmetic of kokoro-credit                     *)
(* (kokoro-credit/src/domain/buckets.ts and reset-boundary.ts).            *)
(*                                                                         *)
(* A wallet holds daily credit (overwritten each UTC day), period credit   *)
(* (overwritten each UTC month) and permanent credit (bought, never        *)
(* expires).  Everything here is pure: the caller supplies the clock.      *)
(*                                                                         *)
(* Operators with a suffix after an underscore are the slips the mutation  *)
(* runs substitute for the definition that follows them.                   *)
(***************************************************************************)
EXTENDS Integers

Bucket    == [daily : Nat, period : Nat, permanent : Nat]
Allowances == [daily : Nat, period : Nat]
Empty     == [daily |-> 0, period |-> 0, permanent |-> 0]

Lesser(m, n) == IF m < n THEN m ELSE n

(***************************************************************************)
(* available: what may still be spent.                                     *)
(***************************************************************************)
Available(b) == b.daily + b.period + b.permanent

(***************************************************************************)
(* debit: take amount from the buckets, soonest-expiring first; what the   *)
(* buckets cannot cover is the shortfall, nothing is overdrawn.            *)
(***************************************************************************)
Debit_PermanentFirst(b, amount) ==
  LET permanent == Lesser(b.permanent, amount)
      daily     == Lesser(b.daily, amount - permanent)
      period    == Lesser(b.period, amount - permanent - daily)
  IN  [daily |-> daily, period |-> period, permanent |-> permanent,
       shortfall |-> amount - daily - period - permanent]

Debit(b, amount) ==
  LET wanted    == IF amount > 0 THEN amount ELSE 0
      daily     == Lesser(b.daily, wanted)
      period    == Lesser(b.period, wanted - daily)
      permanent == Lesser(b.permanent, wanted - daily - period)
  IN  [daily |-> daily, period |-> period, permanent |-> permanent,
       shortfall |-> wanted - daily - period - permanent]

(***************************************************************************)
(* The bucket-wise difference: the wallet after a debit d, and the part of *)
(* a reservation that a settlement d leaves unused.                        *)
(***************************************************************************)
Minus(b, d) == [daily     |-> b.daily - d.daily,
                period    |-> b.period - d.period,
                permanent |-> b.permanent - d.permanent]

(***************************************************************************)
(* isStale over the boundary index: the stored watermark precedes the      *)
(* boundary now falls in.  A watermark that was never set (NULL) is below  *)
(* every boundary.                                                         *)
(***************************************************************************)
NeverReset == -1
IsStale_AnyOtherBoundary(resetOn, boundary) == resetOn # boundary
IsStale_UnsetIsFresh(resetOn, boundary) == resetOn # NeverReset /\ resetOn < boundary
IsStale(resetOn, boundary) == resetOn < boundary

(***************************************************************************)
(* refresh: a stale time bucket is overwritten with its allowance (what    *)
(* was left in it is forfeited, never added); permanent credit is kept.    *)
(***************************************************************************)
Refresh_Accumulating(b, allowances, stale) ==
  [daily     |-> IF stale.daily THEN b.daily + allowances.daily ELSE b.daily,
   period    |-> IF stale.period THEN b.period + allowances.period ELSE b.period,
   permanent |-> b.permanent]

Refresh(b, allowances, stale) ==
  [daily     |-> IF stale.daily THEN allowances.daily ELSE b.daily,
   period    |-> IF stale.period THEN allowances.period ELSE b.period,
   permanent |-> b.permanent]

(***************************************************************************)
(* creditBack: return delta to the buckets it came from, clamping each     *)
(* time bucket to its allowance; permanent credit is returned in full.     *)
(***************************************************************************)
CreditBack_ClampsFirst(b, delta, allowances) ==
  [daily     |-> Lesser(b.daily, allowances.daily),
   period    |-> Lesser(b.period, allowances.period),
   permanent |-> b.permanent + delta.permanent]

CreditBack_TimeOnly(b, delta, allowances) ==
  [daily     |-> Lesser(b.daily + delta.daily, allowances.daily),
   period    |-> Lesser(b.period + delta.period, allowances.period),
   permanent |-> b.permanent]

CreditBack(b, delta, allowances) ==
  [daily     |-> Lesser(b.daily + delta.daily, allowances.daily),
   period    |-> Lesser(b.period + delta.period, allowances.period),
   permanent |-> b.permanent + delta.permanent]
=============================================================================
