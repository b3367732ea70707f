SPECIFICATION Spec
CONSTANTS
    a1 = a1  a2 = a2  c1 = c1  t1 = t1  t2 = t2
    Addrs = {a1}
    Txs = {t1}
    Codes = {c1}
    Amounts = {1}
    Nonces = {1}
    Ops <- AllOps
    MaxLen = 2
    MaxRevs = 2
    MaxBal = 1
    MaxLogs = 1
    None = None  NoCode = NoCode  Zero = Zero
INVARIANTS RevisionsStack RevertFindsLive NeverBroken
VIEW NoHistory
CHECK_DEADLOCK FALSE
