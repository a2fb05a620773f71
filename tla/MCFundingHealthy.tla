-------------------------- MODULE MCFundingHealthy --------------------------
(* Funding with nodes that answer, messages that name blocks, submissions that
   are accepted and no restart: what the system does on a good day. *)
EXTENDS Funding, TLC

CONSTANTS a1, a2, m1, r1, r2, r3

Body(reset, as) ==
    [reset |-> reset, signed |-> TRUE,
     items |-> [i \in DOMAIN as |-> [addr |-> as[i], msg |-> m1]]]

MCSubmissions ==
    {Body(FALSE, <<a1, a2>>), Body(TRUE, <<a2>>), Body(FALSE, <<a1>>)}

MCSeed ==
    1 :> [exch |-> 1, addr |-> a1, msg |-> m1, status |-> "active", retry |-> 0, bal |-> 1] @@
    2 :> [exch |-> 1, addr |-> a2, msg |-> m1, status |-> "failed", retry |-> 3, bal |-> 0]

\* With one exchange this is the good day FundsSettled is about.
ASSUME OneExchangeIsGoodDay == Cardinality(Exchanges) = 1 => GoodDay

============================================================================
