------------------------------ MODULE MCMedia ------------------------------
(* Media with two assets, one request and the nightly cleanup: a request   *)
(* and the cleanup do not work on p at one time, on q they may.            *)
EXTENDS Media

CONSTANTS p, q, h1
=============================================================================
