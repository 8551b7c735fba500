------------------------- MODULE MCOrderSubmission -------------------------
(***************************************************************************)
(* The instance of OrderSubmission that TLC checks.  Calls and identities  *)
(* are numbers, and of the requests that differ only by a renaming of them *)
(* one is kept: TLC does not use symmetry where liveness is checked.       *)
(***************************************************************************)
EXTENDS OrderSubmission

\* The first call has the first identity and the lower price.
MCInit ==
  /\ Init
  /\ \A c, d \in Calls :
       c < d => asked[c].id = 1 /\ asked[c].terms.price <= asked[d].terms.price

MCFairSpec == MCInit /\ [][Next]_vars /\ Fairness

=============================================================================
