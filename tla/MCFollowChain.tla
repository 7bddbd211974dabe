---------------------------- MODULE MCFollowChain ----------------------------
(* Small instances of FollowChain: users with one connection each, and one *)
(* with two, of which the second may supersede the first.                  *)
EXTENDS FollowChain, TLC

CONSTANTS ua, ub, uc, ud, ca, cb, cc, cd, ca2

MCUsers4 == {ua, ub, uc, ud}
MCConns5 == {ca, cb, cc, cd, ca2}
MCUsers2 == {ua, ub}
MCConns3 == {ca, cb, ca2}
MCUserOf ==
  [c \in Conn |-> CASE c \in {ca, ca2} -> ua [] c = cb -> ub [] c = cc -> uc
                    [] OTHER -> ud]

(* The properties say nothing of a disturbed server, and a restart, the    *)
(* only way out, leads to a state like the initial ones.                   *)
Undisturbed == calm

(* A first start, with no follow keys in Redis.                            *)
FirstStart == Init /\ chain.key = [u \in User |-> NoUser] /\ [][Next]_vars

=============================================================================
