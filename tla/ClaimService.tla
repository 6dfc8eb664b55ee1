---------------------------- MODULE ClaimService ----------------------------
(***************************************************************************)
(* What claiming promises, without threads, caches, remote calls or SQL:   *)
(* an application is claimed and recorded in one step, with a certificate  *)
(* of its own, or nothing happens.  The promise ends for an application    *)
(* that was taken out of the hands of the security manager.                *)
(***************************************************************************)
EXTENDS Naturals

CONSTANT Apps

VARIABLES
  installed,   \* the certificate each application has, 0 without one
  recorded,    \* the rows of each application in the database
  issued,      \* the certificates that were signed
  lost         \* the applications that the promise is not about any more

vars == <<installed, recorded, issued, lost>>

NoRecord == [managed |-> FALSE, id |-> 0, mf |-> 0]

\* A row with its certificate, and the manifest the certificate was issued for.
Record(s) == [managed |-> TRUE, id |-> s, mf |-> s]

InUse(s) == \E b \in Apps : installed[b] = s \/ recorded[b].id = s

Init ==
  /\ installed = [a \in Apps |-> 0]
  /\ recorded = [a \in Apps |-> NoRecord]
  /\ issued = {}
  /\ lost = {}

Issue(s) ==
  /\ s \notin issued
  /\ issued' = issued \cup {s}
  /\ UNCHANGED <<installed, recorded, lost>>

\* The user of the application may have reset it before the claim returns.
Claim(a, s) ==
  /\ a \notin lost
  /\ installed[a] = 0 /\ recorded[a] = NoRecord
  /\ ~InUse(s)
  /\ recorded' = [recorded EXCEPT ![a] = Record(s)]
  /\ installed' = [installed EXCEPT ![a] = s] \/ UNCHANGED installed
  /\ UNCHANGED <<issued, lost>>

Reset(a) ==
  /\ installed' = [installed EXCEPT ![a] = 0]
  /\ UNCHANGED <<recorded, issued, lost>>

\* Applications get lost, or something happens to some that are; the others stay as they are.
Lose ==
  /\ lost \subseteq lost' /\ lost' \subseteq Apps
  /\ \A a \in Apps \ lost' : installed'[a] = installed[a] /\ recorded'[a] = recorded[a]
  /\ UNCHANGED issued

Next ==
  \/ \E s \in issued' : Issue(s)
  \/ \E a \in Apps, s \in issued : Claim(a, s)
  \/ \E a \in Apps : Reset(a)
  \/ Lose

Spec == Init /\ [][Next]_vars

=============================================================================
