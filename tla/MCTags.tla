------------------------------- MODULE MCTags -------------------------------
(***************************************************************************)
(* Tags with three tags, two names and paths of one and of two.            *)
(***************************************************************************)
EXTENDS Tags

CONSTANTS k1, k2, k3, news, arts, w1, w2

TwoDeep == {<<news>>, <<arts, news>>}
=============================================================================
