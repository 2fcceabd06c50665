----------------------------- MODULE MCItemsApi -----------------------------
(* Instances of ItemsApi for TLC. *)
EXTENDS ItemsApi

Path(op, id) == [op |-> op, id |-> id, body |-> "none"]

Create(body) == [op |-> "create", id |-> 0, body |-> body]

SomeRequests ==
  {Create("object"), Create("odd"), Create("bad"), Path("list", 0),
   Path("get", 1), Path("delete", 1), Path("delete", MaxId + 1)}
=============================================================================
