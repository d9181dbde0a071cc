--------------------------- MODULE LandingSerial ---------------------------
(***************************************************************************)
(* Landing implements SerialStore: the table of artifacts as revisions and *)
(* contents, and each call as landed from the commit of its set on.        *)
(***************************************************************************)
EXTENDS Landing

HeldNow == [each \in Iris |->
  [revision |-> artifacts[each].revision, content |-> artifacts[each].content]]

StateNow == [c \in Calls |->
  [set |-> asked[c],
   at |-> IF pc[c] = "idle" THEN "idle"
          ELSE IF \E e \in entries : e.by = c THEN "landed"
          ELSE CASE outcome[c] = "refused" -> "refused"
                 [] outcome[c] \in {"busy", "escaped", "lost"} -> "failed"
                 [] OTHER -> "asked"]]

Serial == INSTANCE SerialStore WITH held <- HeldNow, state <- StateNow

(* Every set lands as if asked alone, and none is refused that could have  *)
(* been applied as the store stood when it was (write.land).               *)
LandsSerially == Serial!SerialSpec
=============================================================================
