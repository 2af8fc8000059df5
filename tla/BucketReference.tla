-------------------------- MODULE BucketReference ---------------------------
(***************************************************************************)
(* What the bucket arithmetic of Buckets is meant to compute, stated for   *)
(* one wallet b without the way buckets.ts computes it.                    *)
(***************************************************************************)
EXTENDS Buckets

(* What a debit of n takes from each bucket.                               *)
Drawn(b, n) == Minus(b, Minus(b, Debit(b, n)))

(* Every way to take as much of n as the wallet covers.                    *)
Splits(b, n) ==
  {s \in [daily : 0 .. b.daily, period : 0 .. b.period, permanent : 0 .. b.permanent] :
     Available(s) = Lesser(n, Available(b))}

(* Of the possible splits the debit is the one that spares the credit that
   expires last: no other takes less permanent credit, or as much of it and
   less period credit; what it lacks is exactly the shortfall.             *)
Thriftiest(b, n) ==
  LET d == Debit(b, n)
  IN  /\ Drawn(b, n) \in Splits(b, n)
      /\ d.shortfall = n - Lesser(n, Available(b))
      /\ \A s \in Splits(b, n) : \/ d.permanent < s.permanent
                                 \/ d.permanent = s.permanent /\ d.period <= s.period

(* Reserving n and capturing m of it spends from each bucket what a direct
   spend of m would have.                                                  *)
CaptureIsSpend(b, n, m) == Drawn(Drawn(b, n), m) = Drawn(b, m)

(* A reservation of n and its full return cancel.                          *)
ReturnCancels(b, n, allowances) ==
  CreditBack(Minus(b, Drawn(b, n)), Drawn(b, n), allowances) = b
=============================================================================
