-------------------------- MODULE MCJsonrpcClient --------------------------
(* Small instances of JsonrpcClient; the bounds are the only parameters. *)
EXTENDS JsonrpcClient
=============================================================================
