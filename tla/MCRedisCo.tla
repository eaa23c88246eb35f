------------------------------ MODULE MCRedisCo ------------------------------
(* Model checking of RedisCo.                                              *)
EXTENDS RedisCo
=============================================================================
