SPECIFICATION Spec
CONSTANTS
    c1 = c1
    c2 = c2
    None = None
    Clients = {c1, c2}
    Keys = {"a", "b"}
    Counter = "n"
    KeyOrder <- MCKeyOrder
    Backends <- MCBackends
    EmptyIn = {"fjall", "any_fjall", "fjall_tx"}
    MaxReqs = 3
    MaxTx = 1
    MaxTxOps = 2
    MaxByte = 2
    MaxLen = 3
 
INVARIANT TransactionsIsolated
 
CHECK_DEADLOCK FALSE
