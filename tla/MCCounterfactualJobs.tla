------------------------ MODULE MCCounterfactualJobs ------------------------
EXTENDS CounterfactualJobs
=============================================================================
