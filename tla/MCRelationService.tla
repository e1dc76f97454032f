------------------------ MODULE MCRelationService ------------------------
(* RelationService for TLC.  Clients are alike, and so are terms.          *)
EXTENDS RelationService, TLC

Alike == Permutations(Client) \cup Permutations(Terms)

==========================================================================
