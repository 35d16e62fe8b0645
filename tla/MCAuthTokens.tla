---------------------------- MODULE MCAuthTokens ----------------------------
(* Small instances of AuthTokens for TLC. *)
EXTENDS AuthTokens, TLC

Interchangeable ==
    Permutations(Device) \cup Permutations(Pair) \cup Permutations(Request)
=============================================================================
