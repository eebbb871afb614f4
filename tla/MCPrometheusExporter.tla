------------------------ MODULE MCPrometheusExporter ------------------------
EXTENDS PrometheusExporter, TLC

StoreSymmetry ==
    Permutations(Devices) \cup Permutations(Params) \cup Permutations(Writers)

=============================================================================
