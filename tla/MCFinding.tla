----------------------------- MODULE MCFinding -----------------------------
(***************************************************************************)
(* Small instances of Finding: a directory in another in a third, and one  *)
(* beside them.                                                            *)
(***************************************************************************)
EXTENDS Finding

CONSTANTS Outer, Middle, Inner, Aside

AllDirs == {Outer, Middle, Inner, Aside}
Inside == [d \in AllDirs |->
             CASE d = Inner -> Middle [] d = Middle -> Outer [] OTHER -> NoDir]

(* Calls made in Inner; only a change is told apart by its client's clock. *)
AllRequests ==
  {request \in [op : {"read", "change", "operate", "where"}, root : {NoDir, Middle}, cwd : {Inner},
                env : {Unset, Blank, Middle, Aside}, clock : BOOLEAN] :
     /\ request.clock => request.op = "change"
     /\ request.root # NoDir => request.env \in {Unset, Aside} /\ request.op \in {"read", "change"}}

Empty == [d \in AllDirs |-> Bare]
Holding(d, form) == [Empty EXCEPT ![d] = [@ EXCEPT !.place = TRUE, !.marker = form]]
AllBefores ==
  {Empty} \cup {[Holding(Middle, form) EXCEPT ![Aside] = Holding(Aside, "ours")[Aside]] :
                  form \in {"ours", "earlier", "later"}}
JustEmpty == {Empty}
=============================================================================
