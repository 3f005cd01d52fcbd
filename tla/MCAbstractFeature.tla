-------------------------- MODULE MCAbstractFeature --------------------------
(* Instances of AbstractFeature for TLC. *)
EXTENDS AbstractFeature, TLC

CONSTANTS prod1, sim1, proxy1, hollow, other, b1, b2

\* hollow lists the interface but returns no instance of it
MCBackendOf == [so \in ServiceObjects |->
                    CASE so \in {prod1, proxy1} -> b1
                      [] so = sim1 -> b2
                      [] OTHER -> None]
MCAccepting == ServiceObjects \ {other}

MCProduction == <<hollow, prod1>>
MCSimulation == <<sim1>>

\* Once sim1 is deleted too, nothing but the hollow one is left.
HollowSimulation == <<hollow, sim1>>

\* No feature is special; used by the run that checks no liveness.
FeatureSymmetry == Permutations(Features)
==============================================================================
