---------------------------- MODULE MCServerRoom ----------------------------
(* Small instances of ServerRoom: update "b" depends on "a", "x" never passes *)
(* validation, the session "sg" belongs to a guest and the rest to the owner.  *)
EXTENDS ServerRoom, TLC

MCDeps == [u \in Update |-> IF u = "b" THEN {"a"} \cap Update ELSE {}]
MCAccountOf == [s \in Session |-> IF s = "sg" THEN "guest" ELSE "owner"]

\* Rooms are interchangeable; so are sessions that share an account.
RoomSymmetry == Permutations(RoomId)
RoomAndSessionSymmetry == Permutations(RoomId) \cup Permutations(Session)
=============================================================================
