--------------------------- MODULE MCClientSession ---------------------------
(***************************************************************************)
(* Small instances of ClientSession.                                       *)
(***************************************************************************)
EXTENDS ClientSession, TLC

CONSTANTS ann, bob, s1, s2

\* Accounts and the serials of their tokens are interchangeable.
Symmetric == Permutations(Users) \cup Permutations(Serials)

\* Once flows of two accounts have overlapped OneAccount promises nothing.
Untainted == ~tainted
=============================================================================
