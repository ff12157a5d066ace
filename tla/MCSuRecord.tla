----------------------------- MODULE MCSuRecord -----------------------------
(* Plain fields y and w; rule x gets y, rule z gets x then w.  Observer o1 *)
(* toggles w (its own member) when told of w and gets x when told of x;    *)
(* observer o2, told of y, removes o1.                                     *)
EXTENDS SuRecord

CONSTANTS t1, t2, y, w, x, z, o1, o2

MCRuleDeps == (x :> <<y>>) @@ (z :> <<x, w>>)

MCObsBody ==
    [o \in {o1, o2} |->
        [f \in {y, w, x, z} |->
            CASE o = o1 /\ f = w -> <<[op |-> "toggle", key |-> w]>>
              [] o = o1 /\ f = x -> <<[op |-> "get", key |-> x]>>
              [] o = o2 /\ f = y -> <<[op |-> "removeobserver", ob |-> o1]>>
              [] OTHER -> <<>>]]

MCCalls ==
    {[op |-> "put", key |-> y, val |-> v] : v \in {0, 1}}
    \cup {[op |-> "toggle", key |-> w]}
    \cup {[op |-> "get", key |-> f] : f \in {x, z}}
    \cup {[op |-> "invalidate", key |-> f] : f \in {x, y}}
    \cup {[op |-> "delete", key |-> f] : f \in {y, x}}
    \cup {[op |-> "setdeps", key |-> z]}
    \cup {[op |-> "observer", ob |-> o] : o \in {o1, o2}}

=============================================================================
