---------------------------- MODULE MCApiClient ----------------------------
(* One session, two fences; a network-initiated id no session can have.      *)
EXTENDS ApiClient

MCCalls == [w \in WorldNames |-> CASE w = "hasty" -> 3 [] w = "life" -> 1 [] w = "hal" -> 10
                                    [] w = "base" -> 5 [] OTHER -> 6]
=============================================================================
