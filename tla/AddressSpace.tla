--------------------------- MODULE AddressSpace ---------------------------
(***************************************************************************)
(* What mapping a range promises: every page of the request gets the       *)
(* translation that was asked for, and no other page of any address space  *)
(* changes, not even while the call is under way.                          *)
(***************************************************************************)
VARIABLES
  mapping,  \* the <<space, page, translation>> in force
  request   \* the <<space, page, translation>> still to be put in force

Init == request = {}

Ask(wanted) == request = {} /\ request' = wanted /\ UNCHANGED mapping

MapPage(space, page, translation) ==
  /\ <<space, page, translation>> \in request
  /\ mapping' = {m \in mapping : m[1] # space \/ m[2] # page} \cup
                 {<<space, page, translation>>}
  /\ request' = request \ {<<space, page, translation>>}

Next ==
  \/ Ask(request')
  \/ \E r \in request : MapPage(r[1], r[2], r[3])

Spec == Init /\ [][Next]_<<mapping, request>>
=============================================================================
