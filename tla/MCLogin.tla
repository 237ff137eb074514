------------------------------ MODULE MCLogin ------------------------------
(* Small instances of Login: two attempts on one machine, one address.      *)
EXTENDS Login, TLC

CONSTANTS a1, a2, admin, staff, boss, code1, code2

MCAttempts == {a1, a2}
MCUsers == {admin}
MCGroups == {staff, boss}
MCCodes == {code1, code2}

\* Codes are random and only compared; attempts and groups too.
MCSymmetry == Permutations(MCAttempts) \cup Permutations(MCCodes) \cup Permutations(MCGroups)
=============================================================================
