------------------------------- MODULE Stock -------------------------------
(***************************************************************************)
(* Raw materials and their movement ledger: inventory.service.ts,          *)
(* stocktake.service.ts, central-kitchen.service.ts and the consumption of *)
(* orders.service.ts (punchItems) and edge-ingest.service.ts.              *)
(*                                                                         *)
(* A statement that adds to stockQty is atomic; receiving and posting a    *)
(* count lock the row they write; producing a batch and moving an indent   *)
(* read before their transaction.  Quantities are units.                   *)
(***************************************************************************)
EXTENDS Integers, FiniteSets, FiniteSetsExt

CONSTANTS
    Clerks,    \* concurrent requests
    Materials, \* raw_materials rows that may come to exist, named by what they hold
    Stocked,   \* those that exist from the start
    Prep,      \* produced materials, each with the set of materials its batch needs
    Counts,    \* stock_counts rows
    Indents,   \* indents, each for one unit of ShipFrom at the central kitchen
    ShipFrom, ShipTo, \* the material there and its namesake at the satellite
    MaxStockMoves \* bound on movements

ASSUME StockAssumption ==
    /\ Stocked \subseteq Materials /\ {ShipFrom, ShipTo} \subseteq Materials
    /\ DOMAIN Prep \subseteq Materials /\ \A m \in DOMAIN Prep : Prep[m] \subseteq Materials
    /\ MaxStockMoves \in Nat /\ "free" \notin Clerks

VARIABLES
    exists,    \* materials that exist
    stock,     \* stockQty
    stockLedger, \* sum of stock_movements.quantity
    opened,    \* whether a material's opening balance is in the ledger
    moves,     \* movements written
    matLock,   \* holder of each material row
    count,     \* stock counts
    countLock, \* holder of each count row
    indent,    \* status of each indent
    clerk      \* requests under way

stockVars == <<exists, stock, stockLedger, opened, moves, matLock, count, countLock, indent, clerk>>

Uncounted == [m \in Materials |-> 0]

ClerkIdle == [op |-> "idle", on |-> "", read |-> 0]

\* variance: what a line was counted at, less the stock frozen when the count began
NoCount == [status |-> "none", lines |-> {}, variance |-> Uncounted, entered |-> {},
            posted |-> Uncounted]

StockTypeOK ==
    /\ exists \subseteq Materials
    /\ stock \in [Materials -> Int] /\ stockLedger \in [Materials -> Int]
    /\ opened \in [Materials -> BOOLEAN] /\ moves \in Nat
    /\ matLock \in [Materials -> Clerks \cup {"free"}]
    /\ \A c \in Counts : /\ count[c].status \in {"none", "COUNTING", "SUBMITTED", "POSTED", "CANCELLED"}
                         /\ count[c].entered \subseteq count[c].lines
    /\ countLock \in [Counts -> Clerks \cup {"free"}]
    /\ indent \in [Indents -> {"none", "DRAFT", "DISPATCHED", "RECEIVED"}]

StockInit ==
    /\ exists = Stocked
    /\ stock = [m \in Materials |-> IF m \in Stocked THEN 1 ELSE 0]
    /\ stockLedger = stock
    /\ opened = [m \in Materials |-> TRUE]
    /\ moves = 0
    /\ matLock = [m \in Materials |-> "free"]
    /\ count = [c \in Counts |-> NoCount]
    /\ countLock = [c \in Counts |-> "free"]
    /\ indent = [i \in Indents |-> "none"]
    /\ clerk = [t \in Clerks |-> ClerkIdle]

----------------------------------------------------------------------------

Free(M) == \A m \in M : matLock[m] = "free"

StockOpen == moves < MaxStockMoves

Book(delta) == \* movements and balances of one committed transaction
    /\ stock' = [m \in Materials |-> stock[m] + delta[m]]
    /\ stockLedger' = [m \in Materials |-> stockLedger[m] + delta[m]]
    /\ moves' = moves + 1

Only(M, n) == [m \in Materials |-> IF m \in M THEN n ELSE 0]

Take(t, op, on, read) ==
    /\ clerk[t] = ClerkIdle
    /\ clerk' = [clerk EXCEPT ![t] = [op |-> op, on |-> on, read |-> read]]

Release(t) ==
    /\ clerk' = [clerk EXCEPT ![t] = ClerkIdle]
    /\ matLock' = [m \in Materials |-> IF matLock[m] = t THEN "free" ELSE matLock[m]]
    /\ countLock' = [c \in Counts |-> IF countLock[c] = t THEN "free" ELSE countLock[c]]

----------------------------------------------------------------------------
(* Materials. *)

\* createMaterial writes the row with its stock, and the opening movement later
CreateMaterial(t, m) ==
    /\ m \notin exists
    /\ exists' = exists \cup {m}
    /\ stock' = [stock EXCEPT ![m] = 1]
    /\ opened' = [opened EXCEPT ![m] = FALSE]
    /\ Take(t, "opening", m, 0)
    /\ UNCHANGED <<stockLedger, moves, matLock, count, countLock, indent>>

WriteOpening(t) ==
    /\ clerk[t].op = "opening"
    /\ stockLedger' = [stockLedger EXCEPT ![clerk[t].on] = @ + 1]
    /\ opened' = [opened EXCEPT ![clerk[t].on] = TRUE]
    /\ Release(t)
    /\ UNCHANGED <<exists, stock, moves, count, indent>>

\* punchItems and insertLines: one decrement for each material of the recipes
Consume(M) ==
    /\ M \subseteq exists /\ Free(M) /\ Book(Only(M, -1))
    /\ UNCHANGED <<exists, opened, matLock, count, countLock, indent, clerk>>

RecordWastage(m) ==
    /\ m \in exists /\ Free({m}) /\ Book(Only({m}, -1))
    /\ UNCHANGED <<exists, opened, matLock, count, countLock, indent, clerk>>

\* variant: the material is read without FOR UPDATE
LockMaterialNot(t, m) == UNCHANGED matLock

LockMaterial(t, m) == Free({m}) /\ matLock' = [matLock EXCEPT ![m] = t]

\* applyReceiptTx computes the new balance from what it reads
BeginReceipt(t, m) ==
    /\ m \in exists
    /\ LockMaterial(t, m)
    /\ Take(t, "receipt", m, stock[m])
    /\ UNCHANGED <<exists, stock, stockLedger, opened, moves, count, countLock, indent>>

CommitReceipt(t) ==
    LET m == clerk[t].on
    IN  /\ clerk[t].op = "receipt"
        /\ stock' = [stock EXCEPT ![m] = clerk[t].read + 1]
        /\ stockLedger' = [stockLedger EXCEPT ![m] = @ + 1]
        /\ moves' = moves + 1
        /\ Release(t)
        /\ UNCHANGED <<exists, opened, count, indent>>

\* produceBatch: stock of the inputs and of the output are read first
BeginBatch(t, m) ==
    /\ {m} \cup Prep[m] \subseteq exists
    /\ \A i \in Prep[m] : stock[i] >= 1
    /\ Take(t, "batch", m, stock[m])
    /\ UNCHANGED <<exists, stock, stockLedger, opened, moves, matLock, count, countLock, indent>>

CommitBatch(t) ==
    LET m == clerk[t].on
        delta == [i \in Materials |-> IF i \in Prep[m] THEN -1 ELSE IF i = m THEN 1 ELSE 0]
    IN  /\ clerk[t].op = "batch" /\ Free({m} \cup Prep[m])
        /\ stock' = [i \in Materials |-> IF i = m THEN clerk[t].read + 1 ELSE stock[i] + delta[i]]
        /\ stockLedger' = [i \in Materials |-> stockLedger[i] + delta[i]]
        /\ moves' = moves + 1
        /\ Release(t)
        /\ UNCHANGED <<exists, opened, count, indent>>

----------------------------------------------------------------------------

\* Stock counts.
CountOpen(c) == count[c].status \in {"COUNTING", "SUBMITTED"}

CountFree(c) == countLock[c] = "free"

\* the advisory lock of nextDocNumber makes check and insert one step
StartCount(c, M) ==
    /\ count[c].status = "none" /\ M # {} /\ M \subseteq exists
    /\ \A d \in Counts : CountOpen(d) => count[d].lines \cap M = {}
    /\ count' = [count EXCEPT ![c] = [NoCount EXCEPT !.status = "COUNTING", !.lines = M]]
    /\ UNCHANGED <<exists, stock, stockLedger, opened, moves, matLock, countLock, indent, clerk>>

EnterCount(c, m, v) ==
    /\ CountOpen(c) /\ CountFree(c) /\ m \in count[c].lines
    /\ count' = [count EXCEPT ![c].variance[m] = v, ![c].entered = @ \cup {m}]
    /\ UNCHANGED <<exists, stock, stockLedger, opened, moves, matLock, countLock, indent, clerk>>

\* an entry with no quantity takes the line back
ClearCount(c, m) ==
    /\ CountOpen(c) /\ CountFree(c) /\ m \in count[c].lines
    /\ count' = [count EXCEPT ![c].variance[m] = 0, ![c].entered = @ \ {m}]
    /\ UNCHANGED <<exists, stock, stockLedger, opened, moves, matLock, countLock, indent, clerk>>

SubmitCount(c) ==
    /\ count[c].status = "COUNTING" /\ CountFree(c) /\ count[c].entered # {}
    /\ count' = [count EXCEPT ![c].status = "SUBMITTED"]
    /\ UNCHANGED <<exists, stock, stockLedger, opened, moves, matLock, countLock, indent, clerk>>

CancelCount(c) ==
    /\ CountOpen(c) /\ CountFree(c)
    /\ count' = [count EXCEPT ![c].status = "CANCELLED"]
    /\ UNCHANGED <<exists, stock, stockLedger, opened, moves, matLock, countLock, indent, clerk>>

LockCount(t, c) == CountFree(c) /\ countLock' = [countLock EXCEPT ![c] = t]

BeginPost(t, c) ==
    /\ CountOpen(c) /\ count[c].entered # {}
    /\ LockCount(t, c)
    /\ Take(t, "post", c, 0)
    /\ UNCHANGED <<exists, stock, stockLedger, opened, moves, matLock, count, indent>>

\* adjusts every counted line by its variance, whatever moved since the freeze
CommitPost(t) ==
    LET c == clerk[t].on
        delta == [m \in Materials |-> IF m \in count[c].entered THEN count[c].variance[m] ELSE 0]
    IN  /\ clerk[t].op = "post" /\ Free(count[c].entered)
        /\ Book(delta)
        /\ count' = [count EXCEPT ![c].status = "POSTED",
                                  ![c].posted = [m \in Materials |-> @[m] + delta[m]]]
        /\ Release(t)
        /\ UNCHANGED <<exists, opened, indent>>

----------------------------------------------------------------------------

\* The central kitchen: an indent's status is read before the transaction.
CreateIndent(i) ==
    /\ indent[i] = "none" /\ ShipFrom \in exists
    /\ indent' = [indent EXCEPT ![i] = "DRAFT"]
    /\ UNCHANGED <<exists, stock, stockLedger, opened, moves, matLock, count, countLock, clerk>>

ReadIndent(t, i) ==
    /\ \/ indent[i] = "DRAFT" /\ Take(t, "dispatch", i, 0)
       \/ indent[i] = "DISPATCHED" /\ Take(t, "receive", i, 0)
    /\ UNCHANGED <<exists, stock, stockLedger, opened, moves, matLock, count, countLock, indent>>

CommitDispatch(t) ==
    /\ clerk[t].op = "dispatch" /\ Free({ShipFrom})
    /\ Book(Only({ShipFrom}, -1))
    /\ indent' = [indent EXCEPT ![clerk[t].on] = "DISPATCHED"]
    /\ Release(t)
    /\ UNCHANGED <<exists, opened, count>>

\* the satellite's material is found by name, or created empty
CommitTransferIn(t) ==
    /\ clerk[t].op = "receive" /\ Free({ShipTo})
    /\ Book(Only({ShipTo}, 1))
    /\ exists' = exists \cup {ShipTo}
    /\ indent' = [indent EXCEPT ![clerk[t].on] = "RECEIVED"]
    /\ Release(t)
    /\ UNCHANGED <<opened, count>>

\* the request dies; what it committed stays
StockFail(t) ==
    /\ clerk[t] # ClerkIdle
    /\ Release(t)
    /\ UNCHANGED <<exists, stock, stockLedger, opened, moves, count, indent>>

----------------------------------------------------------------------------

StockNext ==
    \/ \E t \in Clerks :
          \/ \E m \in Materials : CreateMaterial(t, m) \/ (StockOpen /\ BeginReceipt(t, m))
          \/ \E m \in DOMAIN Prep : StockOpen /\ BeginBatch(t, m)
          \/ \E c \in Counts : StockOpen /\ BeginPost(t, c)
          \/ \E i \in Indents : ReadIndent(t, i)
          \/ WriteOpening(t) \/ CommitReceipt(t) \/ CommitBatch(t) \/ CommitPost(t)
          \/ CommitDispatch(t) \/ CommitTransferIn(t) \/ StockFail(t)
    \/ \E M \in SUBSET Materials : StockOpen /\ M # {} /\ Consume(M)
    \/ \E m \in Materials : StockOpen /\ RecordWastage(m)
    \/ \E c \in Counts :
          \/ \E M \in SUBSET Materials : StartCount(c, M)
          \/ \E m \in Materials, v \in {-1, 0} : EnterCount(c, m, v)
          \/ \E m \in Materials : ClearCount(c, m)
          \/ SubmitCount(c) \/ CancelCount(c)
    \/ \E i \in Indents : CreateIndent(i)

StockSpec == StockInit /\ [][StockNext]_stockVars

----------------------------------------------------------------------------
(* Properties. *)

\* The balance of a material is the sum of its movements, unless it is produced
\* in batches or its opening movement is still missing: receiving, wastage, sales,
\* counts and transfers never lose an update to each other.
BalanceExplained ==
    \A m \in exists \ DOMAIN Prep : opened[m] => stock[m] = stockLedger[m]

\* A stock count adjusts the ledger by its variance exactly once, when it is
\* posted, however many requests post, submit or cancel it at once.
CountPostsOnce ==
    \A c \in Counts : \A m \in Materials :
        count[c].posted[m] = IF count[c].status = "POSTED" /\ m \in count[c].entered
                             THEN count[c].variance[m] ELSE 0

\* Stock moves by what was recorded, and a stocktake corrects it once.
StockSound == BalanceExplained /\ CountPostsOnce
=============================================================================
