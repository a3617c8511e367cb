----------------------------- MODULE MCCatalogue ------------------------------
(* A small catalogue: two services and a bundle of them, one slot by day and one  *)
(* whose visits run into the evening, one jurisdiction that requires its tax and   *)
(* one that does not.                                                              *)
EXTENDS Integers, TLC

CONSTANTS s1, s2, b1, k1, k2, j1, j2, Null

Plain == [headcount |-> 1, tools |-> "provider", addOns |-> {}]
Crew == [headcount |-> 2, tools |-> "customer", addOns |-> {"a1"}]
Unsaid == [headcount |-> Null, tools |-> Null, addOns |-> Null]

Adjust == 30 :> -3000 @@ 60 :> 0 @@ 90 :> 6000
TwoServices ==
    s1 :> [base |-> 12000, adjust |-> Adjust, headcounts |-> {1, 2},
           tools |-> {"provider", "customer"}, addOns |-> {"a1"}] @@
    s2 :> [base |-> 6000, adjust |-> Adjust, headcounts |-> {1}, tools |-> {"provider"},
           addOns |-> {}]

Part(s, d, spec) == [service |-> s, duration |-> d, spec |-> spec]
OneBundle == b1 :> [components |-> <<Part(s1, 60, Plain), Part(s2, 30, Unsaid)>>, discount |-> 10]
Recomposed == {<<Part(s1, 30, Crew), Part(s1, 90, Plain)>>, <<Part(s2, Null, Unsaid)>>}

ServiceLine(s, d, spec) == [type |-> "service", id |-> s, duration |-> d, quantity |-> 1,
                            spec |-> spec, specs |-> {}]
BundleLine(specs) == [type |-> "bundle", id |-> b1, duration |-> Null, quantity |-> 1,
                      spec |-> Unsaid, specs |-> specs]
TwoCarts == {<<ServiceLine(s1, 60, Crew)>>,
             <<BundleLine({Part(s1, 60, Unsaid), Part(s2, 60, Unsaid)})>>}
TwoConfigs == {[duration |-> 60, spec |-> Plain], [duration |-> 90, spec |-> Crew]}

\* Minutes from a midnight: 10:00 and 18:30.
TwoSlots == k1 :> 2040 @@ k2 :> 2550
TwoJurisdictions == j1 :> [required |-> TRUE, rate |-> 10] @@ j2 :> [required |-> FALSE, rate |-> 0]
=============================================================================
