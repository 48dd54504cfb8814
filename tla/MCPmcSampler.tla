---------------------------- MODULE MCPmcSampler ---------------------------
(* pmc_sampler for TLC.                                                    *)
EXTENDS PmcSampler
=============================================================================
