------------------------------ MODULE MCBills ------------------------------
(* Instance of Bills for TLC: row ids are numbers, tables before orders. *)
EXTENDS Bills, TLC

ReqSymmetry == Permutations(Reqs)

MCTables == {1}
MCTables2 == {1, 2}
MCOrders == 11..14
MCOrders3 == 11..13
MCOrders2 == 11..12
MCOutlet == 99
MCUnits == <<2, 1>>
MCUnits11 == <<1, 1>>
MCParts == {2}
MCUnits2 == <<2>>
============================================================================
