------------------------------ MODULE MCStorage ------------------------------
EXTENDS FileStore, TLC

CONSTANTS c1, c2

Key(kind, t, id) == [kind |-> kind, tenant |-> t, id |-> id]
E1 == Key("entity", 1, 1)
E2 == Key("entity", 1, 2)
S1 == Key("doc", 1, 1)
X1 == Key("context", 1, 1)

Doc(v, till, inst) == [val |-> v, till |-> till, inst |-> inst]
StoreKeys == {E1, E2, S1, X1}
StoreAsks ==
    { [op |-> "create", key |-> E1, doc |-> Doc(1, 1, 0)],
      [op |-> "create", key |-> E2, doc |-> Doc(1, 0, 1)],
      [op |-> "upsert", key |-> E1, doc |-> Doc(2, 0, 1)],
      [op |-> "delete", key |-> E1],
      [op |-> "delete_if", key |-> E1, keep |-> {1}],
      [op |-> "mutate", key |-> E1, val |-> 3, refuses |-> {2}],
      [op |-> "get", key |-> E1],
      [op |-> "upsert", key |-> S1, doc |-> Doc(1, 1, 0)],
      [op |-> "delete", key |-> S1],
      [op |-> "upsert", key |-> X1, doc |-> Doc(1, 0, 0)],
      [op |-> "purge", tenant |-> 1] }
StoreSymmetry == Permutations(Clients)
=============================================================================
