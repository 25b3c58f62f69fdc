----------------------------- MODULE ClaimOwner -----------------------------
(***************************************************************************)
(* What the Claim Protocol promises (ADR-0017): claim races are impossible.*)
(* An issue has at most one owner, a driver owns at most one issue, and    *)
(* ownership changes hands only through the pool: it is acquired by a      *)
(* driver without an issue on an issue without an owner, and given up.     *)
(***************************************************************************)
CONSTANTS Issue, Worker, None

VARIABLE owner      \* the driver that holds each issue, or None

Init == owner = [i \in Issue |-> None]

Acquire(i, w) ==
  /\ owner[i] = None
  /\ \A j \in Issue : owner[j] # w
  /\ owner' = [owner EXCEPT ![i] = w]

Release(i) ==
  /\ owner[i] # None
  /\ owner' = [owner EXCEPT ![i] = None]

Next == \E i \in Issue : Release(i) \/ (\E w \in Worker : Acquire(i, w))

Spec == Init /\ [][Next]_owner
=============================================================================
