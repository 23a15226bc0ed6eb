------------------------------- MODULE MCBoot --------------------------------
(***************************************************************************)
(* Boot for TLC: the API, a worker and the rebuild binary.                 *)
(***************************************************************************)
EXTENDS Boot

CONSTANTS api, worker, rebuild

MCWaiting   == {api, worker}
MCMigrating == {api, rebuild}
MCApi       == {api}

=============================================================================
