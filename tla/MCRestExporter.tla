--------------------------- MODULE MCRestExporter ---------------------------
EXTENDS RestExporter

=============================================================================
